---- MODULE Spec2Model ----
(***************************************************************************)
(* CanFixDAT: the matcher (match_games_with_myrient), the single-file      *)
(* transfer (download_file) and the pooled download scheduler              *)
(* (DownloadWorker._download_with_gui_updates with its worker task         *)
(* download_one), as state machines.                                       *)
(*                                                                         *)
(* A file is modelled by its byte count in chunks; Absent stands for a     *)
(* path that does not exist.  A remote file has an actual stream length    *)
(* (len); the size the directory listing states for it is rounded          *)
(* ("1.2 MiB") and may differ from it by listing_slack.                    *)
(***************************************************************************)
EXTENDS Integers, Sequences, FiniteSets, TLC

\* ---------------------------------------------------------------- bounds
NumTasks == 3        \* matched items of a run
MaxMembers == 2      \* files in a remote folder
MaxChunks == 2       \* chunks of a single remote file
PoolSize == 2        \* download_threads of the configuration
MaxFaults == 1       \* environment faults (network, filesystem) per run
MaxPresent == 1      \* files found in the download directory at the start

Absent == 0 - 1

Tasks == 1..NumTasks
Members == 1..MaxMembers

VARIABLES
    \* inputs and configuration of the run
    matched_games,          \* the matched list handed to the scheduler
    listing_slack,          \* listed size minus actual stream length
    extract_enabled,
    delete_archive_after_extract,
    present_at_start,       \* destination paths on disk before the run
    \* DownloadWorker fields
    stop_requested,
    force_stop_requested,
    \* the download directory
    disk,                   \* path -> byte count or Absent
    extracted,              \* archives whose extraction output is on disk
    \* locals of _download_with_gui_updates
    idx,
    active,
    free_slots,
    future_to_slot,
    successful,
    failed,
    bytes_by_key,
    size_by_key,
    extract_futures,        \* archive path -> "queued" | "ok" | "failed"
    sched,                  \* position of the scheduler thread
    summary,
    \* one download_one call per task
    pc,
    cur,                    \* folder member being handled
    downloaded,             \* download_file's byte counter
    ret,                    \* what download_file returned: <<ok, n>>
    folder_ok,
    archives,               \* archive paths the task hands back
    result,                 \* what the future holds
    \* history of the run
    run,
    transfers,              \* transfers begun in the current run
    disk_after_first,
    first_ok,               \* the first run ended with everything done
    faulted,                \* tasks hit by an environment fault
    forced_mid,             \* transfers cut by the forced stop
    \* match_games_with_myrient
    myrient_index,          \* the parsed listing, in listing order
    games,                  \* the standardized catalog entries, in order
    index_map,              \* stem -> position of the listing entry kept
    mpc,                    \* "build", "match", "done"
    mpos,                   \* position of the loop under way
    matched,                \* the list being returned
    \* progress reporting of concurrent transfers
    now,                    \* the clock, in ticks of 0.1 s
    last_update,            \* download_file's last_update, per transfer
    tstate,                 \* "idle", "loop", "end", per transfer
    tchunks,                \* chunks received, per transfer
    emitted,                \* progress_signal emissions: [at, by]
    \* _extract_archive
    output_dir,             \* name -> entry of the extraction directory
    members,                \* name -> top-level entry of the archive
    pre_names,              \* names in output_dir before the unpacking
    unpacked,               \* output_dir as the unpacking left it
    archive_exists,
    delete_archive,         \* delete_archive_after_extract of this job
    xpc,                    \* "start", "unpacked", "done"
    xret,                   \* what _extract_archive returns
    \* _run_chd_conversion
    chdman_found,
    chd_type,
    delete_source_after_convert,
    candidates,             \* the suffixes of the source files, in scan order
    source_exists,
    output_file,            \* per source: "none", "old" or the mode that wrote it
    cpos,                   \* position in candidates
    cmode,                  \* position in cmd_order
    cpc,                    \* "find", "next", "spawn", "wait", "done"
    chd_converted,
    chd_failed,
    chd_skipped,
    chd_source_deleted,
    invoked,                \* the converter processes started: [src, mode, verdict]
    \* DownloadWorker.run
    use_igir,
    clean_roms,
    myrient_base_url,       \* TRUE: a base URL is configured
    list_dat,               \* the DAT file: "missing", "unparsable", "empty", "games"
    fixdat,                 \* the manual fixdat: "none" or as list_dat
    has_manual_fixdat,
    parsed,                 \* "pending", "failed", "empty", "games"
    rpc,                    \* the phase of run
    requests,               \* the network requests issued, in order
    fetched,                \* the error_type of each fetch_myrient_index
    prompts,                \* request_myrient_url_override emissions
    signals,                \* error_signal and closing status_signal emissions
    finished,               \* finished_signal emissions
    \* the unlocked counters of the download threads
    lock,                   \* holder of self._lock, 0 when free
    wpc,                    \* position of each pool thread in download_one
    spc,                    \* position of the scheduler thread
    loaded,                 \* the value each thread read for its += 1
    increments,             \* += 1 statements each thread has completed
    collected,              \* futures the scheduler has counted
    \* the pool over the matcher's list
    submitted,              \* idx of the fill loops, over matched
    in_pool,                \* active: positions of matched in the pool
    \* what follows the download pool
    chd_convert,
    postprocess_esde_m3u,
    postprocess_roots,      \* target directories of the extractions that succeeded
    chd_roots,              \* what _run_chd_conversion was called with
    esde_roots,             \* what _run_esde_postprocess was called with
    ppc                     \* position of the scheduler thread after the pool

cfgvars == <<matched_games, listing_slack, extract_enabled,
             delete_archive_after_extract, present_at_start>>
flagvars == <<stop_requested, force_stop_requested>>
fsvars == <<disk, extracted>>
schedvars == <<idx, active, free_slots, future_to_slot, sched, summary,
               extract_futures>>
tallyvars == <<successful, failed>>
progvars == <<bytes_by_key, size_by_key>>
taskvars == <<pc, cur, downloaded, ret, folder_ok, archives, result>>
histvars == <<run, transfers, disk_after_first, first_ok, faulted,
              forced_mid>>

matchvars == <<myrient_index, games, index_map, mpc, mpos, matched>>

throttlevars == <<now, last_update, tstate, tchunks, emitted>>

\* the download stage, and the stages modelled apart from it
dlvars == <<cfgvars, flagvars, fsvars, schedvars, tallyvars, progvars,
            taskvars, histvars>>
extractvars == <<output_dir, members, pre_names, unpacked, archive_exists,
                 delete_archive, xpc, xret>>

chdvars == <<chdman_found, chd_type, delete_source_after_convert, candidates,
             source_exists, output_file, cpos, cmode, cpc, chd_converted,
             chd_failed, chd_skipped, chd_source_deleted, invoked>>

runvars == <<use_igir, clean_roms, myrient_base_url, list_dat, fixdat,
             has_manual_fixdat, parsed, rpc, requests, fetched, prompts,
             signals, finished>>

racevars == <<lock, wpc, spc, loaded, increments, collected>>

poolvars == <<submitted, in_pool>>

postvars == <<chd_convert, postprocess_esde_m3u, postprocess_roots, chd_roots, esde_roots, ppc>>

stagevars == <<matchvars, throttlevars, extractvars, chdvars, runvars,
    racevars,
    poolvars,
    postvars>>

\* what each stage modelled apart leaves alone
matchrest == <<dlvars, throttlevars, extractvars, chdvars, runvars,
    racevars,
    poolvars,
    postvars>>
throttlerest == <<dlvars, matchvars, extractvars, chdvars, runvars,
    racevars,
    poolvars,
    postvars>>
extractrest == <<dlvars, matchvars, throttlevars, chdvars, runvars,
    racevars,
    poolvars,
    postvars>>
chdrest == <<cfgvars, fsvars, schedvars, tallyvars, progvars, taskvars,
             histvars, matchvars, throttlevars, extractvars, runvars,
    racevars,
    poolvars,
    postvars>>
runrest == <<dlvars, matchvars, throttlevars, extractvars, chdvars,
    racevars,
    poolvars,
    postvars>>

vars == <<dlvars, stagevars>>

\* ------------------------------------------------------------ the inputs
\* A remote file: archive says whether its suffix is .zip or .7z
RemoteFile(n, a) == [len |-> n, archive |-> a]

\* matched items: a single archive, a single plain file, or a folder whose
\* first member is an archive and whose other members are plain files
FileItem(a) ==
    [is_folder |-> FALSE, files |-> <<RemoteFile(MaxChunks, a)>>]
FolderItem ==
    [is_folder |-> TRUE,
     files |-> [j \in Members |-> RemoteFile(1, j = 1)]]
\* a folder whose listing request failed, when the sizes were fetched and
\* again in the task: fetch_folder_contents caught the error and returned []
UnlistedFolderItem == [is_folder |-> TRUE, files |-> <<>>]
\* the members a folder has on the server
RemoteMembers == Members
\* the matched lists of the model: at most one folder among single files
MatchedLists(a) ==
    {[i \in Tasks |-> IF i = k THEN FolderItem ELSE FileItem(a)] :
        k \in 0..NumTasks}

\* the size the listing states for member j of task i
ListedSize(i, j) == matched_games[i].files[j].len + listing_slack
StreamLen(i, j) == matched_games[i].files[j].len
IsArchive(i, j) == matched_games[i].files[j].archive
NumFiles(i) == Len(matched_games[i].files)

OutPaths == {<<i, j, "out">> : i \in Tasks, j \in Members}
TmpPaths == {<<i, j, "tmp">> : i \in Tasks, j \in Members}
Paths == OutPaths \cup TmpPaths
ItemPaths(i) == {<<i, j, "out">> : j \in 1..NumFiles(i)}

RECURSIVE SumOver(_, _)
SumOver(f, S) ==
    IF S = {} THEN 0
    ELSE LET x == CHOOSE y \in S : TRUE
         IN  f[x] + SumOver(f, S \ {x})

SumMap(f) == SumOver(f, DOMAIN f)

\* "File Size" of a matched item (a folder's is the sum over its members,
\* set by enrich_matched_games_with_folder_sizes)
FileSize(i) ==
    SumOver([j \in 1..NumFiles(i) |-> ListedSize(i, j)], 1..NumFiles(i))

total_games == Len(matched_games)
total_size == SumOver([i \in Tasks |-> FileSize(i)], Tasks)
max_workers == PoolSize

\* ----------------------------------------------------------- download_file
\* temp_path = output_path.with_suffix(output_path.suffix + ".tmp")
temp_path_inplace(p) == p
temp_path(p) == <<p[1], p[2], "tmp">>

\* should_stop: lambda: self._force_stop_requested or isInterruptionRequested()
should_stop_never == FALSE
should_stop == force_stop_requested

\* self._stop_requested or self.isInterruptionRequested()
StopSeen == stop_requested

Out(i) == <<i, cur[i], "out">>

\* best-effort cleanup of the handlers: unlink the temp file if it exists
Unlink(d, p) == [d EXCEPT ![p] = Absent]

\* bytes_by_key[key] = n, under the lock
RecordBytesAdd(m, key, n) ==
    [k \in DOMAIN m \cup {key} |->
        IF k = key THEN (IF k \in DOMAIN m THEN m[k] ELSE 0) + n ELSE m[k]]
RecordBytes(m, key, n) ==
    [k \in DOMAIN m \cup {key} |-> IF k = key THEN n ELSE m[k]]

\* size_by_key[key] = size; bytes_by_key.setdefault(key, 0)
SetDefault(m, key) ==
    [k \in DOMAIN m \cup {key} |-> IF k \in DOMAIN m THEN m[k] ELSE 0]

make_key(i, j) == <<i, j>>

\* download_file returned: control is back in download_one
Return(i, ok, n) ==
    /\ ret' = [ret EXCEPT ![i] = <<ok, n>>]
    /\ pc' = [pc EXCEPT ![i] = "post"]

\* requests.get succeeded and the temp file was opened for writing
Open(i) ==
    /\ pc[i] = "request"
    /\ disk' = [disk EXCEPT ![temp_path(Out(i))] = 0]
    /\ downloaded' = [downloaded EXCEPT ![i] = 0]
    /\ pc' = [pc EXCEPT ![i] = "recv"]
    /\ transfers' = transfers + 1
    /\ UNCHANGED <<stagevars, cfgvars, flagvars, extracted, schedvars, tallyvars,
                   progvars, cur, ret, folder_ok, archives, result, run,
                   disk_after_first, first_ok, faulted, forced_mid>>

\* the next chunk arrived: the stop callback is asked before it is written
Recv(i) ==
    /\ pc[i] = "recv"
    /\ downloaded[i] < StreamLen(i, cur[i])
    /\ IF should_stop
       THEN /\ disk' = Unlink(disk, temp_path(Out(i)))
            /\ Return(i, FALSE, downloaded[i])
       ELSE /\ pc' = [pc EXCEPT ![i] = "write"]
            /\ UNCHANGED <<disk, ret>>
    /\ UNCHANGED <<stagevars, cfgvars, flagvars, extracted, schedvars, tallyvars,
                   progvars, cur, downloaded, folder_ok, archives, result,
                   histvars>>

\* f.write(chunk); the progress callback runs when the interval has passed
Write(i) ==
    /\ pc[i] = "write"
    /\ disk' = [disk EXCEPT ![temp_path(Out(i))] = @ + 1]
    /\ downloaded' = [downloaded EXCEPT ![i] = @ + 1]
    /\ \E report \in BOOLEAN :
          bytes_by_key' =
             IF report
             THEN RecordBytes(bytes_by_key, make_key(i, cur[i]),
                              downloaded[i] + 1)
             ELSE bytes_by_key
    /\ pc' = [pc EXCEPT ![i] = "recv"]
    /\ UNCHANGED <<stagevars, cfgvars, flagvars, extracted, schedvars, tallyvars,
                   size_by_key, cur, ret, folder_ok, archives, result,
                   histvars>>

\* the stream ended: temp_path.replace(output_path), last progress callback
Rename(i) ==
    /\ pc[i] = "recv"
    /\ downloaded[i] = StreamLen(i, cur[i])
    /\ disk' = [disk EXCEPT ![Out(i)] = disk[temp_path(Out(i))],
                            ![temp_path(Out(i))] =
                                IF temp_path(Out(i)) = Out(i)
                                THEN disk[Out(i)] ELSE Absent]
    /\ bytes_by_key' =
          RecordBytes(bytes_by_key, make_key(i, cur[i]), downloaded[i])
    /\ Return(i, TRUE, downloaded[i])
    /\ UNCHANGED <<stagevars, cfgvars, flagvars, extracted, schedvars, tallyvars,
                   size_by_key, cur, downloaded, folder_ok, archives, result,
                   histvars>>

\* requests.get or iter_content raised a network error
NetworkError(i) ==
    /\ pc[i] \in {"request", "recv"}
    /\ pc[i] = "recv" => downloaded[i] < StreamLen(i, cur[i])
    /\ disk' = Unlink(disk, temp_path(Out(i)))
    /\ Return(i, FALSE, 0)
    /\ faulted' = faulted \cup {i}
    /\ UNCHANGED <<stagevars, cfgvars, flagvars, extracted, schedvars, tallyvars,
                   progvars, cur, downloaded, folder_ok, archives, result,
                   run, transfers, disk_after_first, first_ok, forced_mid>>

\* open, write or replace raised OSError: temp and final file are unlinked
FileSystemError(i) ==
    /\ pc[i] \in {"request", "write", "recv"}
    /\ pc[i] = "recv" => downloaded[i] = StreamLen(i, cur[i])
    /\ disk' = Unlink(Unlink(disk, temp_path(Out(i))), Out(i))
    /\ Return(i, FALSE, 0)
    /\ faulted' = faulted \cup {i}
    /\ UNCHANGED <<stagevars, cfgvars, flagvars, extracted, schedvars, tallyvars,
                   progvars, cur, downloaded, folder_ok, archives, result,
                   run, transfers, disk_after_first, first_ok, forced_mid>>

\* ------------------------------------------------------------ download_one
\* archive_output_already_present(output_path): the archive's extraction
\* target exists and is not empty
archive_output_already_present(p) ==
    /\ extract_enabled
    /\ IsArchive(p[1], p[2])
    /\ p \in extracted

\* download_one returns: its locals are gone, the future holds the result
Finish(i, r) ==
    /\ result' = [result EXCEPT ![i] = r]
    /\ pc' = [pc EXCEPT ![i] = "done"]
    /\ cur' = [cur EXCEPT ![i] = 1]
    /\ downloaded' = [downloaded EXCEPT ![i] = 0]
    /\ ret' = [ret EXCEPT ![i] = <<FALSE, 0>>]
    /\ folder_ok' = [folder_ok EXCEPT ![i] = TRUE]

locals == <<cur, downloaded, ret, folder_ok>>

\* single file: register the key, then the two presence checks
Begin(i) ==
    /\ pc[i] = "begin"
    /\ ~matched_games[i].is_folder
    /\ size_by_key' = RecordBytes(size_by_key, make_key(i, 1), FileSize(i))
    /\ IF disk[Out(i)] # Absent \/ archive_output_already_present(Out(i))
       THEN /\ successful' = successful + 1
            /\ bytes_by_key' =
                  RecordBytes(bytes_by_key, make_key(i, 1), FileSize(i))
            /\ Finish(i, "skipped")
       ELSE /\ bytes_by_key' = SetDefault(bytes_by_key, make_key(i, 1))
            /\ pc' = [pc EXCEPT ![i] = "request"]
            /\ UNCHANGED <<successful, result, locals>>
    /\ UNCHANGED <<stagevars, cfgvars, flagvars, fsvars, schedvars, failed, archives,
                   histvars>>

\* single file: download_file has returned
Post(i) ==
    /\ pc[i] = "post"
    /\ ~matched_games[i].is_folder
    /\ IF StopSeen
       THEN /\ disk' = Unlink(disk, temp_path(Out(i)))
            /\ Finish(i, "cancelled")
            /\ UNCHANGED <<bytes_by_key, archives>>
       ELSE /\ bytes_by_key' =
                  IF ret[i][1]
                  THEN RecordBytes(bytes_by_key, make_key(i, 1), ret[i][2])
                  ELSE bytes_by_key
            /\ archives' =
                  [archives EXCEPT ![i] =
                      IF ret[i][1] /\ IsArchive(i, 1) THEN {Out(i)} ELSE {}]
            /\ Finish(i, IF ret[i][1] THEN "ok" ELSE "failed")
            /\ UNCHANGED disk
    /\ UNCHANGED <<stagevars, cfgvars, flagvars, extracted, schedvars, tallyvars,
                   size_by_key, histvars>>

\* folder: head of the loop over the members; over an empty listing the
\* loop body never runs
FolderMember(i) ==
    /\ pc[i] = "member"
    /\ IF cur[i] > NumFiles(i) \/ StopSeen
       THEN /\ pc' = [pc EXCEPT ![i] = "fin"]
            /\ UNCHANGED <<progvars, cur>>
       ELSE /\ size_by_key' = RecordBytes(size_by_key, make_key(i, cur[i]),
                                          ListedSize(i, cur[i]))
            /\ IF disk[Out(i)] # Absent
               THEN /\ bytes_by_key' =
                          RecordBytes(bytes_by_key, make_key(i, cur[i]),
                                      ListedSize(i, cur[i]))
                    /\ cur' = [cur EXCEPT ![i] = @ + 1]
                    /\ pc' = [pc EXCEPT ![i] =
                                 IF cur[i] = NumFiles(i) THEN "fin" ELSE @]
               ELSE /\ bytes_by_key' =
                          SetDefault(bytes_by_key, make_key(i, cur[i]))
                    /\ pc' = [pc EXCEPT ![i] = "request"]
                    /\ UNCHANGED cur
    /\ UNCHANGED <<stagevars, cfgvars, flagvars, fsvars, schedvars, tallyvars,
                   downloaded, ret, folder_ok, archives, result, histvars>>

\* folder: download_file has returned for the current member
FolderPost(i) ==
    /\ pc[i] = "post"
    /\ matched_games[i].is_folder
    /\ IF ret[i][1]
       THEN /\ bytes_by_key' =
                  RecordBytes(bytes_by_key, make_key(i, cur[i]), ret[i][2])
            /\ archives' =
                  [archives EXCEPT ![i] =
                      IF IsArchive(i, cur[i]) THEN @ \cup {Out(i)} ELSE @]
            /\ UNCHANGED folder_ok
       ELSE /\ folder_ok' = [folder_ok EXCEPT ![i] = FALSE]
            /\ UNCHANGED <<bytes_by_key, archives>>
    /\ cur' = [cur EXCEPT ![i] = @ + 1]
    /\ downloaded' = [downloaded EXCEPT ![i] = 0]
    /\ ret' = [ret EXCEPT ![i] = <<FALSE, 0>>]
    /\ pc' = [pc EXCEPT ![i] = IF cur[i] = NumFiles(i) THEN "fin" ELSE "member"]
    /\ UNCHANGED <<stagevars, cfgvars, flagvars, fsvars, schedvars, tallyvars,
                   size_by_key, result, histvars>>

\* folder: after the loop
FolderFin(i) ==
    /\ pc[i] = "fin"
    /\ IF StopSeen
       THEN /\ Finish(i, "cancelled")
            /\ archives' = [archives EXCEPT ![i] = {}]
            /\ UNCHANGED tallyvars
       ELSE IF folder_ok[i]
       THEN /\ successful' = successful + 1
            /\ Finish(i, "ok")
            /\ UNCHANGED <<failed, archives>>
       ELSE /\ failed' = failed + 1
            /\ Finish(i, "failed")
            /\ archives' = [archives EXCEPT ![i] = {}]
            /\ UNCHANGED successful
    /\ UNCHANGED <<stagevars, cfgvars, flagvars, fsvars, schedvars, progvars, histvars>>

\* an exception inside download_one: a folder task catches it itself, a
\* single-file task hits it outside its try block and the future holds it
Raise(i) ==
    /\ pc[i] \in {"begin", "member"}
    /\ IF matched_games[i].is_folder
       THEN /\ failed' = failed + 1
            /\ Finish(i, "failed")
       ELSE /\ Finish(i, "raised")
            /\ UNCHANGED failed
    /\ archives' = [archives EXCEPT ![i] = {}]
    /\ faulted' = faulted \cup {i}
    /\ UNCHANGED <<stagevars, cfgvars, flagvars, fsvars, schedvars, successful,
                   progvars, run, transfers, disk_after_first, first_ok,
                   forced_mid>>

\* ------------------------------------------- _download_with_gui_updates
InFlight(i) == i \in active /\ result[i] = "none"
Terminal(i) == result[i] # "none"
Completed(i) == result[i] \in {"ok", "skipped"}

\* the condition of both fill loops
can_start_ignoring_stop ==
    /\ idx < total_games
    /\ Cardinality(active) < max_workers
can_start_unbounded ==
    /\ idx < total_games
    /\ ~StopSeen
can_start ==
    /\ idx < total_games
    /\ Cardinality(active) < max_workers
    /\ ~StopSeen

\* idx += 1; game = matched_games[idx - 1]: the item a fill loop takes next
next_game_last == total_games
next_game == idx + 1

\* one iteration of a fill loop: ex.submit(download_one, game, idx, slot_id)
Submit ==
    /\ sched = "run"
    /\ can_start
    /\ LET i == next_game
           slot_id == IF free_slots # <<>> THEN Head(free_slots) ELSE 0
       IN  /\ idx' = i
           /\ free_slots' =
                 IF free_slots # <<>> THEN Tail(free_slots) ELSE free_slots
           /\ active' = active \cup {i}
           /\ future_to_slot' = future_to_slot @@ (i :> slot_id)
           /\ pc' = [pc EXCEPT ![i] =
                        IF matched_games[i].is_folder THEN "member"
                        ELSE "begin"]
    /\ UNCHANGED <<stagevars, cfgvars, flagvars, fsvars, sched, summary,
                   extract_futures, tallyvars, progvars, cur, downloaded,
                   ret, folder_ok, archives, result, histvars>>

\* the orders in which "for fut in done" may visit a set of futures
RECURSIVE Orders(_)
Orders(S) ==
    IF S = {} THEN {<<>>}
    ELSE UNION {{<<x>> \o o : o \in Orders(S \ {x})} : x \in S}

Range(q) == {q[k] : k \in 1..Len(q)}

\* what the loop over the done futures does next when fut.result() raised:
\* the except clause inside the loop counts a failure and the loop goes on
after_result_uncaught(raised) == IF raised THEN "aborted" ELSE "run"
after_result(raised) == "run"

\* the archive_paths the scheduler hands to the extraction pool: those of
\* the futures that returned ok and not skipped
handed_whatever(done) == UNION {ItemPaths(i) : i \in done}
handed(done) ==
    UNION {archives[i] : i \in {k \in done : result[k] = "ok"}}

\* wait(active, FIRST_COMPLETED) returned: slots are freed, results counted,
\* archives of finished downloads handed to the extraction pool
Collect ==
    /\ sched = "run"
    /\ ~can_start
    /\ LET done == {i \in active : Terminal(i)}
           good == {i \in done : Completed(i)}
       IN  /\ done # {}
           /\ active' = active \ done
           /\ \E order \in Orders(done) :
                 free_slots' =
                    free_slots \o [k \in 1..Len(order) |->
                                      future_to_slot[order[k]]]
           /\ future_to_slot' =
                 [i \in DOMAIN future_to_slot \ done |-> future_to_slot[i]]
           /\ successful' = successful + Cardinality(good)
           /\ failed' = failed + Cardinality(done \ good)
           /\ extract_futures' =
                 IF extract_enabled
                 THEN extract_futures @@ [p \in handed(done) |-> "queued"]
                 ELSE extract_futures
           /\ sched' = after_result(\E i \in done : result[i] = "raised")
    /\ UNCHANGED <<stagevars, cfgvars, flagvars, fsvars, idx, summary, progvars,
                   taskvars, histvars>>

\* _extract_archive on the extraction pool
Extract(p) ==
    /\ p \in DOMAIN extract_futures
    /\ extract_futures[p] = "queued"
    /\ \/ /\ disk[p] # Absent
          /\ extract_futures' = [extract_futures EXCEPT ![p] = "ok"]
          /\ extracted' = extracted \cup {p}
          /\ disk' = IF delete_archive_after_extract
                     THEN Unlink(disk, p) ELSE disk
       \/ /\ extract_futures' = [extract_futures EXCEPT ![p] = "failed"]
          /\ UNCHANGED <<disk, extracted>>
    /\ UNCHANGED <<stagevars, cfgvars, flagvars, idx, active, free_slots, future_to_slot,
                   sched, summary, tallyvars, progvars, taskvars, histvars>>

\* _cleanup_tmp_files: every *.tmp under the download directory is removed
cleanup_tmp_files(d) ==
    [p \in DOMAIN d |-> IF p \in TmpPaths THEN Absent ELSE d[p]]

\* the pool has drained and every extraction job has finished: cleanup
\* after a stop, then the summary
Summary ==
    /\ sched = "run"
    /\ ~can_start
    /\ active = {}
    /\ \A p \in DOMAIN extract_futures : extract_futures[p] # "queued"
    /\ disk' = IF StopSeen THEN cleanup_tmp_files(disk) ELSE disk
    /\ summary' = [successful |-> successful, failed |-> failed,
                   total_games |-> total_games,
                   total_downloaded |-> SumMap(bytes_by_key),
                   total_size |-> total_size]
    /\ sched' = "done"
    /\ disk_after_first' = IF run = 1 THEN disk' ELSE disk_after_first
    /\ first_ok' = IF run = 1
                   THEN /\ ~StopSeen
                        /\ \A i \in Tasks : Completed(i)
                        /\ \A p \in DOMAIN extract_futures :
                              extract_futures[p] = "ok"
                   ELSE first_ok
    /\ UNCHANGED <<stagevars, cfgvars, flagvars, extracted, idx, active, free_slots,
                   future_to_slot, extract_futures, tallyvars, progvars,
                   taskvars, run, transfers, faulted, forced_mid>>

\* ------------------------------------------------------------ stop signals
\* a transfer of task i that still has a chunk boundary ahead of it
ChunkBoundaryAhead(i) ==
    \/ pc[i] = "request"
    \/ pc[i] = "recv" /\ downloaded[i] < StreamLen(i, cur[i])
    \/ pc[i] = "write" /\ downloaded[i] + 1 < StreamLen(i, cur[i])

\* DownloadWorker.request_stop
RequestStop ==
    /\ sched = "run"
    /\ ~stop_requested
    /\ stop_requested' = TRUE
    /\ UNCHANGED <<stagevars, cfgvars, force_stop_requested, fsvars, schedvars,
                   tallyvars, progvars, taskvars, histvars>>

\* DownloadWorker.request_force_stop
RequestForceStop ==
    /\ sched = "run"
    /\ ~force_stop_requested
    /\ stop_requested' = TRUE
    /\ force_stop_requested' = TRUE
    /\ forced_mid' =
          {<<i, cur[i]>> :
              i \in {k \in Tasks : InFlight(k) /\ ChunkBoundaryAhead(k)}}
    /\ UNCHANGED <<stagevars, cfgvars, fsvars, schedvars, tallyvars, progvars,
                   taskvars, run, transfers, disk_after_first, first_ok,
                   faulted>>

\* ------------------------------------------------------------------- runs
NoFunction == [x \in {} |-> 0]

\* the state _download_with_gui_updates starts from
FreshRun ==
    /\ stop_requested = FALSE
    /\ force_stop_requested = FALSE
    /\ idx = 0
    /\ active = {}
    /\ free_slots = [k \in 1..max_workers |-> k - 1]
    /\ future_to_slot = NoFunction
    /\ successful = 0
    /\ failed = 0
    /\ bytes_by_key = NoFunction
    /\ size_by_key = NoFunction
    /\ extract_futures = NoFunction
    /\ sched = "run"
    /\ summary = NoFunction
    /\ pc = [i \in Tasks |-> "pending"]
    /\ cur = [i \in Tasks |-> 1]
    /\ downloaded = [i \in Tasks |-> 0]
    /\ ret = [i \in Tasks |-> <<FALSE, 0>>]
    /\ folder_ok = [i \in Tasks |-> TRUE]
    /\ archives = [i \in Tasks |-> {}]
    /\ result = [i \in Tasks |-> "none"]
    /\ transfers = 0
    /\ faulted = {}
    /\ forced_mid = {}

\* the length of a file that is there at the start: the remote file's
PresentLen(i, j) == IF j <= NumFiles(i) THEN StreamLen(i, j) ELSE 1

\* the download directory at the start: some first files already there
StartDisks ==
    {[p \in Paths |-> IF p \in present THEN 1 ELSE 0] :
        present \in {S \in SUBSET {<<i, 1, "out">> : i \in Tasks} :
                        Cardinality(S) <= MaxPresent}}

InitRun ==
    /\ listing_slack \in {0, 1}
    /\ \E d \in StartDisks :
          /\ present_at_start = {p \in Paths : d[p] = 1}
          /\ disk = [p \in Paths |->
                       IF d[p] = 1 THEN PresentLen(p[1], p[2]) ELSE Absent]
    /\ extracted = {}
    /\ run = 1
    /\ disk_after_first = NoFunction
    /\ first_ok = FALSE
    /\ FreshRun

\* the matching stage is over when the download stage runs
MatchIdle ==
    /\ myrient_index = <<>>
    /\ games = <<>>
    /\ index_map = NoFunction
    /\ mpc = "done"
    /\ mpos = 0
    /\ matched = <<>>

\* no transfer is being timed
ThrottleIdle ==
    /\ now = 0
    /\ last_update = NoFunction
    /\ tstate = NoFunction
    /\ tchunks = NoFunction
    /\ emitted = <<>>

\* no archive is being unpacked
ExtractIdle ==
    /\ output_dir = NoFunction
    /\ members = NoFunction
    /\ pre_names = {}
    /\ unpacked = NoFunction
    /\ archive_exists = FALSE
    /\ delete_archive = FALSE
    /\ xpc = "done"
    /\ xret = NoFunction

\* no conversion is under way
ChdIdle ==
    /\ chdman_found = FALSE
    /\ chd_type = "cd"
    /\ delete_source_after_convert = FALSE
    /\ candidates = <<>>
    /\ source_exists = <<>>
    /\ output_file = <<>>
    /\ cpos = 0
    /\ cmode = 0
    /\ cpc = "done"
    /\ chd_converted = 0
    /\ chd_failed = 0
    /\ chd_skipped = 0
    /\ chd_source_deleted = 0
    /\ invoked = <<>>

\* run is in its download phase, nothing of the earlier phases recorded
RunIdle ==
    /\ use_igir = FALSE
    /\ clean_roms = FALSE
    /\ myrient_base_url = TRUE
    /\ list_dat = "games"
    /\ fixdat = "none"
    /\ has_manual_fixdat = TRUE
    /\ parsed = "games"
    /\ rpc = "download"
    /\ requests = <<>>
    /\ fetched = <<>>
    /\ prompts = 0
    /\ signals = <<>>
    /\ finished = 0

\* no thread is at a counter
RaceIdle ==
    /\ lock = 0
    /\ wpc = NoFunction
    /\ spc = <<"wait", 0>>
    /\ loaded = NoFunction
    /\ increments = NoFunction
    /\ collected = {}

\* nothing of the matcher's list has been submitted
PoolIdle ==
    /\ submitted = 0
    /\ in_pool = {}

\* no post-processing is under way
PostIdle ==
    /\ chd_convert = FALSE
    /\ postprocess_esde_m3u = FALSE
    /\ postprocess_roots = {}
    /\ chd_roots = {}
    /\ esde_roots = {}
    /\ ppc = "end"

\* the stages modelled apart from the download stage are at rest
StagesIdle ==
    /\ MatchIdle
    /\ ThrottleIdle
    /\ ExtractIdle
    /\ ChdIdle
    /\ RunIdle
    /\ RaceIdle
    /\ PoolIdle
    /\ PostIdle

\* a run with extract_archives off
Init ==
    /\ StagesIdle
    /\ matched_games \in MatchedLists(TRUE)
    /\ extract_enabled = FALSE
    /\ delete_archive_after_extract = FALSE
    /\ InitRun

TaskStep(i) ==
    \/ Begin(i)
    \/ FolderMember(i)
    \/ Open(i)
    \/ Recv(i)
    \/ Write(i)
    \/ Rename(i)
    \/ Post(i)
    \/ FolderPost(i)
    \/ FolderFin(i)

Fault(i) ==
    /\ Cardinality(faulted) < MaxFaults
    /\ \/ NetworkError(i)
       \/ FileSystemError(i)
       \/ Raise(i)

Next ==
    \/ Submit
    \/ Collect
    \/ Summary
    \/ RequestStop
    \/ RequestForceStop
    \/ \E i \in Tasks : TaskStep(i)
    \/ \E i \in Tasks : Fault(i)

Spec == Init /\ [][Next]_vars

\* the scheduler thread and the pool threads run whenever they can; the stop
\* requests and the faults are the environment's and need not happen
Fairness ==
    /\ WF_vars(Submit)
    /\ WF_vars(Collect)
    /\ WF_vars(Summary)
    /\ \A i \in Tasks : WF_vars(TaskStep(i))

\* the listed sizes play no part in scheduling: one value of the slack
InitLive == Init /\ listing_slack = 0

LiveSpec == InitLive /\ [][Next]_vars /\ Fairness

\* ------------------------------------------------------------ running again
\* the user starts the same download again: a new DownloadWorker over the
\* same matched list and the same directory
Rerun ==
    /\ sched = "done"
    /\ run = 1
    /\ run' = 2
    /\ stop_requested' = FALSE
    /\ force_stop_requested' = FALSE
    /\ idx' = 0
    /\ active' = {}
    /\ free_slots' = [k \in 1..max_workers |-> k - 1]
    /\ future_to_slot' = NoFunction
    /\ successful' = 0
    /\ failed' = 0
    /\ bytes_by_key' = NoFunction
    /\ size_by_key' = NoFunction
    /\ extract_futures' = NoFunction
    /\ sched' = "run"
    /\ summary' = NoFunction
    /\ pc' = [i \in Tasks |-> "pending"]
    /\ cur' = [i \in Tasks |-> 1]
    /\ downloaded' = [i \in Tasks |-> 0]
    /\ ret' = [i \in Tasks |-> <<FALSE, 0>>]
    /\ folder_ok' = [i \in Tasks |-> TRUE]
    /\ archives' = [i \in Tasks |-> {}]
    /\ result' = [i \in Tasks |-> "none"]
    /\ transfers' = 0
    /\ faulted' = {}
    /\ forced_mid' = {}
    /\ UNCHANGED <<stagevars, cfgvars, fsvars, disk_after_first, first_ok>>

\* runs with extract_archives on, nothing on disk before the first
InitRerun ==
    /\ StagesIdle
    /\ matched_games \in MatchedLists(TRUE)
    /\ extract_enabled = TRUE
    /\ delete_archive_after_extract \in BOOLEAN
    /\ InitRun
    /\ listing_slack = 0
    /\ present_at_start = {}

NextRerun ==
    \/ Submit
    \/ Collect
    \/ Summary
    \/ Rerun
    \/ \E i \in Tasks : TaskStep(i)
    \/ \E p \in OutPaths : Extract(p)

SpecRerun == InitRerun /\ [][NextRerun]_vars

\* ------------------------------------------------------------ folder tasks
\* runs over a list with one folder, listed or not, without stop requests
InitFolder ==
    /\ StagesIdle
    /\ \E k \in Tasks, f \in {FolderItem, UnlistedFolderItem} :
          matched_games = [i \in Tasks |-> IF i = k THEN f ELSE FileItem(TRUE)]
    /\ extract_enabled = FALSE
    /\ delete_archive_after_extract = FALSE
    /\ InitRun

NextFolder ==
    \/ Submit
    \/ Collect
    \/ Summary
    \/ Rerun
    \/ \E i \in Tasks : TaskStep(i)
    \/ \E i \in Tasks : Fault(i)

SpecFolder == InitFolder /\ [][NextFolder]_vars

\* ---------------------------------------------- downloads with extraction
\* a run with extract_archives on, under stops and faults
InitExtract ==
    /\ StagesIdle
    /\ matched_games \in MatchedLists(TRUE)
    /\ extract_enabled = TRUE
    /\ delete_archive_after_extract \in BOOLEAN
    /\ InitRun
    /\ listing_slack = 0

NextExtract ==
    \/ Next
    \/ \E p \in OutPaths : Extract(p)

SpecExtract == InitExtract /\ [][NextExtract]_vars

\* ------------------------------------------------------------ the matcher
\* names are sequences of characters
MaxIndex == 3
MaxCatalog == 2

\* what the listing parser can hand over: names with and without an
\* extension, with two dots, with nothing before the dot, with a blank left
\* at the end by rstrip("/")
FileNames == {<<"a", ".", "z">>, <<"a">>, <<"a", ".", "b", ".", "z">>,
              <<".", "z">>, <<"a", ".", "b">>, <<"a", " ">>}

\* what the catalog parsers hand over: stripped, never empty
GameNames == {<<"a">>, <<"b">>, <<"a", ".", "b">>, <<"a", ".", "z">>}

IndexEntries == [filename : FileNames, is_folder : BOOLEAN]

SeqsUpTo(S, n) == UNION {[1..k -> S] : k \in 1..n}

RECURSIVE LStrip(_)
LStrip(t) == IF t # <<>> /\ Head(t) = " " THEN LStrip(Tail(t)) ELSE t

RECURSIVE RStrip(_)
RStrip(t) ==
    IF t # <<>> /\ t[Len(t)] = " " THEN RStrip(SubSeq(t, 1, Len(t) - 1))
    ELSE t

\* str.strip()
Strip(t) == RStrip(LStrip(t))

Dots(t) == {k \in 1..Len(t) : t[k] = "."}
MaxOf(S) == CHOOSE k \in S : \A m \in S : m <= k
MinOf(S) == CHOOSE k \in S : \A m \in S : k <= m

\* re.sub(r"\.[^.]+$", "", fn): the last dot and what follows it go, unless
\* nothing follows it
StripFromFirstDot(fn) ==
    IF Dots(fn) = {} \/ MaxOf(Dots(fn)) = Len(fn) THEN fn
    ELSE SubSeq(fn, 1, MinOf(Dots(fn)) - 1)
StripExtension(fn) ==
    IF Dots(fn) = {} \/ MaxOf(Dots(fn)) = Len(fn) THEN fn
    ELSE SubSeq(fn, 1, MaxOf(Dots(fn)) - 1)

\* stem = fn if is_folder else re.sub(...) of the stripped filename
Stem(f) ==
    IF f.is_folder THEN Strip(f.filename)
    ELSE StripExtension(Strip(f.filename))

\* whether entry f takes the place of what index_map holds for its stem
FirstWins(existing, f) == existing = 0
Replaces(existing, f) ==
    \/ existing = 0
    \/ f.is_folder /\ ~myrient_index[existing].is_folder

\* index_map.get(stem): the position kept, 0 for None
Get(m, stem) == IF stem \in DOMAIN m THEN m[stem] ELSE 0

\* one turn of the loop over myrient_index
IndexStep ==
    /\ mpc = "build"
    /\ LET f == myrient_index[mpos]
           fn == Strip(f.filename)
           stem == Stem(f)
       IN  index_map' =
               IF fn # <<>> /\ stem # <<>> /\ Replaces(Get(index_map, stem), f)
               THEN [k \in DOMAIN index_map \cup {stem} |->
                        IF k = stem THEN mpos ELSE index_map[k]]
               ELSE index_map
    /\ IF mpos < Len(myrient_index)
       THEN mpos' = mpos + 1 /\ mpc' = mpc
       ELSE mpos' = 1 /\ mpc' = "match"
    /\ UNCHANGED <<myrient_index, games, matched>>
    /\ UNCHANGED matchrest

\* one turn of the loop over games
MatchStep ==
    /\ mpc = "match"
    /\ LET game_name == Strip(games[mpos])
           best == Get(index_map, game_name)
       IN  matched' =
               IF game_name # <<>> /\ best # 0
               THEN Append(matched, [game |-> mpos, name |-> game_name,
                                     entry |-> best])
               ELSE matched
    /\ IF mpos < Len(games)
       THEN mpos' = mpos + 1 /\ mpc' = mpc
       ELSE mpos' = 0 /\ mpc' = "done"
    /\ UNCHANGED <<myrient_index, games, index_map>>
    /\ UNCHANGED matchrest

\* the download stage has not begun
DownloadIdle ==
    /\ matched_games = [i \in Tasks |-> FileItem(TRUE)]
    /\ extract_enabled = FALSE
    /\ delete_archive_after_extract = FALSE
    /\ InitRun
    /\ listing_slack = 0
    /\ present_at_start = {}

InitMatch ==
    /\ myrient_index \in SeqsUpTo(IndexEntries, MaxIndex)
    /\ games \in SeqsUpTo(GameNames, MaxCatalog)
    /\ index_map = NoFunction
    /\ mpc = "build"
    /\ mpos = 1
    /\ matched = <<>>
    /\ DownloadIdle
    /\ ThrottleIdle
    /\ ExtractIdle
    /\ ChdIdle
    /\ RunIdle
    /\ RaceIdle
    /\ PoolIdle
    /\ PostIdle

NextMatch ==
    \/ IndexStep
    \/ MatchStep

SpecMatch == InitMatch /\ [][NextMatch]_vars

\* ------------------------------------------------- progress of transfers
\* PROGRESS_UPDATE_INTERVAL = 0.2 s, in ticks
Interval == 2
MaxTicks == 4

\* the transfers running at the same time, one per pool thread
Transfers == 1..PoolSize

\* progress_cb: bytes_by_key is updated under the lock and progress_signal
\* is emitted, with no test of when the signal was last emitted
progress_cb(w) == emitted' = Append(emitted, [at |-> now, by |-> w])

TTick ==
    /\ now < MaxTicks
    /\ now' = now + 1
    /\ UNCHANGED <<last_update, tstate, tchunks, emitted>>
    /\ UNCHANGED throttlerest

\* download_file is entered: last_update = start_time
TStart(w) ==
    /\ tstate[w] = "idle"
    /\ tstate' = [tstate EXCEPT ![w] = "loop"]
    /\ last_update' = [last_update EXCEPT ![w] = now]
    /\ UNCHANGED <<now, tchunks, emitted>>
    /\ UNCHANGED throttlerest

\* a chunk is written; the callback runs when this transfer's own
\* last_update is an interval back
TChunk(w) ==
    /\ tstate[w] = "loop"
    /\ tchunks[w] < MaxChunks
    /\ tchunks' = [tchunks EXCEPT ![w] = @ + 1]
    /\ IF now - last_update[w] >= Interval
       THEN /\ progress_cb(w)
            /\ last_update' = [last_update EXCEPT ![w] = now]
       ELSE UNCHANGED <<emitted, last_update>>
    /\ UNCHANGED <<now, tstate>>
    /\ UNCHANGED throttlerest

\* after the rename the callback runs once more, whatever the time
TEnd(w) ==
    /\ tstate[w] = "loop"
    /\ tchunks[w] = MaxChunks
    /\ tstate' = [tstate EXCEPT ![w] = "end"]
    /\ progress_cb(w)
    /\ UNCHANGED <<now, last_update, tchunks>>
    /\ UNCHANGED throttlerest

InitThrottle ==
    /\ now = 0
    /\ last_update = [w \in Transfers |-> 0]
    /\ tstate = [w \in Transfers |-> "idle"]
    /\ tchunks = [w \in Transfers |-> 0]
    /\ emitted = <<>>
    /\ DownloadIdle
    /\ MatchIdle
    /\ ExtractIdle
    /\ ChdIdle
    /\ RunIdle
    /\ RaceIdle
    /\ PoolIdle
    /\ PostIdle

NextThrottle ==
    \/ TTick
    \/ \E w \in Transfers : TStart(w)
    \/ \E w \in Transfers : TChunk(w)
    \/ \E w \in Transfers : TEnd(w)

SpecThrottle == InitThrottle /\ [][NextThrottle]_vars

\* ------------------------------------------------ unpacking one archive
MaxOld == 1
MaxTop == 2
MaxKids == 2

Names == {"a", "b", "c"}
Kinds == {"file", "dir"}

PartialFns(D, R, n) ==
    UNION {[S -> R] : S \in {T \in SUBSET D : Cardinality(T) <= n}}

\* the children of a directory of the archive, by name
KidSets == PartialFns(Names, Kinds, MaxKids)

\* a top-level entry of the archive
TopEntries ==
    {[kind |-> "file", kids |-> NoFunction]}
        \cup {[kind |-> "dir", kids |-> k] : k \in KidSets}

\* an entry of output_dir; old: it was there before the unpacking and
\* nothing of the archive was written over it
Entry(kind, kids, old) == [kind |-> kind, kids |-> kids, old |-> old]

\* what is in the extraction directory before the job
OldEntries == {Entry(k, NoFunction, TRUE) : k \in Kinds}

\* an archive entry cannot be written where an entry of the other kind is
Clashes(tree, arch) ==
    {n \in DOMAIN arch \cap DOMAIN tree : arch[n].kind # tree[n].kind}

\* extractall / 7z x -y: files are written over, directories are merged
Unpack(tree, arch, S) ==
    [n \in DOMAIN tree \cup S |->
        IF n \notin S THEN tree[n]
        ELSE IF n \notin DOMAIN tree
             THEN Entry(arch[n].kind, arch[n].kids, FALSE)
        ELSE IF arch[n].kind = "file"
             THEN Entry("file", NoFunction, FALSE)
        ELSE Entry("dir", arch[n].kids @@ tree[n].kids, tree[n].old)]

new_entries(tree, pre) == DOMAIN tree \ pre
new_dirs(tree, pre) == {n \in new_entries(tree, pre) : tree[n].kind = "dir"}
new_files(tree, pre) == {n \in new_entries(tree, pre) : tree[n].kind = "file"}

one_new_dir(tree, pre) == Cardinality(new_dirs(tree, pre)) = 1

\* the test that lets the flatten go on
single_wrapper(tree, pre) ==
    /\ Cardinality(new_dirs(tree, pre)) = 1
    /\ Cardinality(new_files(tree, pre)) = 0

nested(tree, pre) == CHOOSE n \in new_dirs(tree, pre) : TRUE

nested_children(tree, pre) == DOMAIN tree[nested(tree, pre)].kids

target_exists_never(tree, child) == FALSE

\* target.exists() for output_dir / child.name
target_exists(tree, child) == child \in DOMAIN tree

\* shutil.move of every child, then nested.rmdir()
MoveUp(tree, pre) ==
    LET w == nested(tree, pre)
        kids == tree[w].kids
    IN  [n \in (DOMAIN tree \ {w}) \cup DOMAIN kids |->
            IF n \in DOMAIN kids
            THEN Entry(kids[n], NoFunction, FALSE)
            ELSE tree[n]]

\* _flatten_single_new_nested_dir: (flat_ok, flat_msg, the directory after)
flatten_single_new_nested_dir(tree, pre) ==
    IF ~single_wrapper(tree, pre)
    THEN [ok |-> TRUE, msg |-> "", tree |-> tree]
    ELSE IF \E c \in nested_children(tree, pre) : target_exists(tree, c)
    THEN [ok |-> FALSE, msg |-> "Could not flatten", tree |-> tree]
    ELSE [ok |-> TRUE, msg |-> "Flattened nested folder",
          tree |-> MoveUp(tree, pre)]

\* the archive is unpacked into output_dir
ExtractAll ==
    /\ xpc = "start"
    /\ pre_names' = DOMAIN output_dir
    /\ Clashes(output_dir, members) = {}
    /\ output_dir' = Unpack(output_dir, members, DOMAIN members)
    /\ unpacked' = output_dir'
    /\ xpc' = "unpacked"
    /\ UNCHANGED <<members, archive_exists, delete_archive, xret>>
    /\ UNCHANGED extractrest

\* the ways the unpacking fails: BadZipFile, OSError or a non-zero exit of
\* 7z; the 30 minutes of subprocess.run are over; no 7z executable
UnpackFailures ==
    {"Failed to extract", "Timed out extracting", "No 7z executable found"}

\* the unpacking fails: some entries were written, none without extractor
ExtractFails(why) ==
    /\ xpc = "start"
    /\ pre_names' = DOMAIN output_dir
    /\ \E S \in SUBSET (DOMAIN members \ Clashes(output_dir, members)) :
           /\ why = "No 7z executable found" => S = {}
           /\ output_dir' = Unpack(output_dir, members, S)
    /\ xret' = [ok |-> FALSE, msg |-> why]
    /\ xpc' = "done"
    /\ UNCHANGED <<members, unpacked, archive_exists, delete_archive>>
    /\ UNCHANGED extractrest

\* if not flat_ok: return ...; if delete_archive_after_extract: unlink()
deletes_archive_whatever(flat_ok) == delete_archive
deletes_archive(flat_ok) == flat_ok /\ delete_archive

\* the rest of _extract_archive: the flatten, then the archive is deleted
FlattenAndReturn ==
    /\ xpc = "unpacked"
    /\ LET flat == flatten_single_new_nested_dir(output_dir, pre_names)
       IN  /\ output_dir' = flat.tree
           /\ xret' = [ok |-> flat.ok, msg |-> flat.msg]
           /\ archive_exists' =
                 IF deletes_archive(flat.ok) THEN FALSE ELSE archive_exists
    /\ xpc' = "done"
    /\ UNCHANGED <<members, pre_names, unpacked, delete_archive>>
    /\ UNCHANGED extractrest

InitUnpack ==
    /\ output_dir \in PartialFns(Names, OldEntries, MaxOld)
    /\ members \in PartialFns(Names, TopEntries, MaxTop)
    /\ pre_names = {}
    /\ unpacked = NoFunction
    /\ archive_exists = TRUE
    /\ delete_archive \in BOOLEAN
    /\ xpc = "start"
    /\ xret = NoFunction
    /\ DownloadIdle
    /\ MatchIdle
    /\ ThrottleIdle
    /\ ChdIdle
    /\ RunIdle
    /\ RaceIdle
    /\ PoolIdle
    /\ PostIdle

NextUnpack ==
    \/ ExtractAll
    \/ \E why \in UnpackFailures : ExtractFails(why)
    \/ FlattenAndReturn

SpecUnpack == InitUnpack /\ [][NextUnpack]_vars

\* ------------------------------------------------------- CHD conversion
MaxSources == 3

\* the suffixes of input_exts; a .gdi source is handled as a .cue source
InputExts == {"cue", "iso"}
Modes == {"createcd", "createdvd"}

iso_cmd_order ==
    IF chd_type = "dvd" THEN <<"createdvd", "createcd">>
    ELSE <<"createcd", "createdvd">>

cmd_order(ext) == IF ext = "iso" THEN iso_cmd_order ELSE <<"createcd">>

keep_partial_output(o) == o

\* _cleanup_partial_output: the output file is unlinked when it exists
cleanup_partial_output(o) == "none"

\* the test of a finished attempt
succeeded(returncode, o) == returncode = 0 /\ o # "none"

after_kill_next_mode == "spawn"

\* stop_after_current with last_error "stopped by user": every loop is left
after_kill == "done"

SetVerdict(log, v) == [log EXCEPT ![Len(log)].verdict = v]

\* chdman is looked up; without it nothing is converted
FindChdman ==
    /\ cpc = "find"
    /\ cpc' = IF chdman_found THEN "next" ELSE "done"
    /\ UNCHANGED <<chdman_found, chd_type, delete_source_after_convert,
                   candidates, source_exists, output_file, cpos, cmode,
                   chd_converted, chd_failed, chd_skipped, chd_source_deleted,
                   invoked>>
    /\ UNCHANGED <<flagvars, chdrest>>

\* the head of the loop over the source files
NextSource ==
    /\ cpc = "next"
    /\ IF cpos > Len(candidates) \/ stop_requested
       THEN /\ cpc' = "done"
            /\ UNCHANGED <<cmode, chd_skipped, cpos>>
       ELSE IF output_file[cpos] # "none"
       THEN /\ chd_skipped' = chd_skipped + 1
            /\ cpos' = cpos + 1
            /\ UNCHANGED <<cpc, cmode>>
       ELSE /\ cmode' = 1
            /\ cpc' = "spawn"
            /\ UNCHANGED <<chd_skipped, cpos>>
    /\ UNCHANGED <<chdman_found, chd_type, delete_source_after_convert,
                   candidates, source_exists, output_file, chd_converted,
                   chd_failed, chd_source_deleted, invoked>>
    /\ UNCHANGED <<flagvars, chdrest>>

\* the head of the loop over the modes: cleanup, then Popen
Spawn ==
    /\ cpc = "spawn"
    /\ output_file' =
          [output_file EXCEPT ![cpos] = cleanup_partial_output(@)]
    /\ invoked' = Append(invoked,
                         [src |-> cpos,
                          mode |-> cmd_order(candidates[cpos])[cmode],
                          verdict |-> "running"])
    /\ cpc' = "wait"
    /\ UNCHANGED <<chdman_found, chd_type, delete_source_after_convert,
                   candidates, source_exists, cpos, cmode, chd_converted,
                   chd_failed, chd_skipped, chd_source_deleted>>
    /\ UNCHANGED <<flagvars, chdrest>>

\* the converter writes to its output file
ProcWrite ==
    /\ cpc = "wait"
    /\ output_file[cpos] # cmd_order(candidates[cpos])[cmode]
    /\ output_file' =
          [output_file EXCEPT ![cpos] = cmd_order(candidates[cpos])[cmode]]
    /\ UNCHANGED <<chdman_found, chd_type, delete_source_after_convert,
                   candidates, source_exists, cpos, cmode, cpc, chd_converted,
                   chd_failed, chd_skipped, chd_source_deleted, invoked>>
    /\ UNCHANGED <<flagvars, chdrest>>

\* communicate returns: the attempt is judged, and the next mode, the next
\* source file or nothing follows
ProcExit(returncode) ==
    /\ cpc = "wait"
    /\ IF succeeded(returncode, output_file[cpos])
       THEN /\ chd_converted' = chd_converted + 1
            /\ invoked' = SetVerdict(invoked, "converted")
            /\ IF delete_source_after_convert
               THEN /\ source_exists' = [source_exists EXCEPT ![cpos] = FALSE]
                    /\ chd_source_deleted' = chd_source_deleted + 1
               ELSE UNCHANGED <<source_exists, chd_source_deleted>>
            /\ cpos' = cpos + 1
            /\ cpc' = "next"
            /\ UNCHANGED <<output_file, cmode, chd_failed>>
       ELSE /\ output_file' =
                  [output_file EXCEPT ![cpos] = cleanup_partial_output(@)]
            /\ invoked' = SetVerdict(invoked, "failed")
            /\ IF cmode < Len(cmd_order(candidates[cpos]))
               THEN /\ cmode' = cmode + 1
                    /\ cpc' = "spawn"
                    /\ UNCHANGED <<cpos, chd_failed>>
               ELSE /\ chd_failed' = chd_failed + 1
                    /\ cpos' = cpos + 1
                    /\ cpc' = "next"
                    /\ UNCHANGED cmode
            /\ UNCHANGED <<chd_converted, source_exists, chd_source_deleted>>
    /\ UNCHANGED <<chdman_found, chd_type, delete_source_after_convert,
                   candidates, chd_skipped>>
    /\ UNCHANGED <<flagvars, chdrest>>

\* communicate times out and the forced stop is seen: the process is killed
Kill ==
    /\ cpc = "wait"
    /\ force_stop_requested
    /\ output_file' =
          [output_file EXCEPT ![cpos] = cleanup_partial_output(@)]
    /\ invoked' = SetVerdict(invoked, "stopped by user")
    /\ chd_failed' = chd_failed + 1
    /\ cpc' = after_kill
    /\ UNCHANGED <<chdman_found, chd_type, delete_source_after_convert,
                   candidates, source_exists, cpos, cmode, chd_converted,
                   chd_skipped, chd_source_deleted>>
    /\ UNCHANGED <<flagvars, chdrest>>

InitChd ==
    /\ chdman_found \in BOOLEAN
    /\ chd_type \in {"cd", "dvd"}
    /\ delete_source_after_convert \in BOOLEAN
    /\ candidates \in SeqsUpTo(InputExts, MaxSources)
    /\ source_exists = [i \in DOMAIN candidates |-> TRUE]
    /\ output_file \in [DOMAIN candidates -> {"none", "old"}]
    /\ cpos = 1
    /\ cmode = 0
    /\ cpc = "find"
    /\ chd_converted = 0
    /\ chd_failed = 0
    /\ chd_skipped = 0
    /\ chd_source_deleted = 0
    /\ invoked = <<>>
    /\ DownloadIdle
    /\ MatchIdle
    /\ ThrottleIdle
    /\ ExtractIdle
    /\ RunIdle
    /\ RaceIdle
    /\ PoolIdle
    /\ PostIdle

NextChd ==
    \/ FindChdman
    \/ NextSource
    \/ Spawn
    \/ ProcWrite
    \/ \E returncode \in {0, 1} : ProcExit(returncode)
    \/ Kill
    \/ RequestStop
    \/ RequestForceStop

SpecChd == InitChd /\ [][NextChd]_vars

\* ------------------------------------------------------ DownloadWorker.run
DatStates == {"missing", "unparsable", "empty", "games"}

\* what fetch_myrient_index returns: a listing, an empty listing, or one of
\* its error types
FetchResults == {"ok", "empty", "404", "timeout", "connection", "http",
                 "error"}

Error(text) == [kind |-> "error", text |-> text]
Status(text) == [kind |-> "status", text |-> text]

retry_any(error_type) == error_type \notin {"ok", "empty"}

\* the error type that makes _fetch_myrient_index ask for another URL
asks_for_url(error_type) == error_type = "404"

\* return, then the finally clause of run: finished_signal.emit()
Return_run(sig) ==
    /\ signals' = signals \o sig
    /\ finished' = finished + 1
    /\ rpc' = "finished"

\* the document the manual branch parses
ManualDocument == IF use_igir THEN fixdat ELSE list_dat

\* _setup_fixdat_config
SetupFixdatConfig ==
    /\ rpc = "setup"
    /\ has_manual_fixdat' = IF use_igir THEN fixdat # "none" ELSE TRUE
    /\ rpc' = "igir"
    /\ UNCHANGED <<use_igir, clean_roms, myrient_base_url, list_dat, fixdat,
                   parsed, requests, fetched, prompts, signals, finished>>
    /\ UNCHANGED runrest

\* _ensure_igir_available: check_and_update_igir asks the releases API
EnsureIgirAvailable(success) ==
    /\ rpc = "igir"
    /\ IF ~use_igir /\ ~clean_roms
       THEN /\ success
            /\ rpc' = "validate"
            /\ UNCHANGED <<requests, signals, finished>>
       ELSE /\ requests' = Append(requests, "igir releases")
            /\ IF success
               THEN /\ rpc' = "validate"
                    /\ UNCHANGED <<signals, finished>>
               ELSE Return_run(<<Error("IGIR Error")>>)
    /\ UNCHANGED <<use_igir, clean_roms, myrient_base_url, list_dat, fixdat,
                   has_manual_fixdat, parsed, fetched, prompts>>
    /\ UNCHANGED runrest

\* validate_config: the DAT source and the Myrient URL; inferred: what
\* infer_myrient_url_from_dat makes of a DAT file that exists
ValidateConfiguration(inferred) ==
    /\ rpc = "validate"
    /\ list_dat = "missing" => ~inferred
    /\ LET dat_error == ~has_manual_fixdat /\ list_dat = "missing"
           url_error == \/ ~myrient_base_url
                        \/ list_dat # "missing" /\ ~inferred
       IN  IF dat_error \/ url_error
           THEN Return_run(<<Error("ERROR_CONFIG_VALIDATION")>>)
           ELSE IF ~inferred
           THEN Return_run(<<Error("ERROR_MYRIENT_URL_MISSING")>>)
           ELSE /\ rpc' = "clean"
                /\ UNCHANGED <<signals, finished>>
    /\ UNCHANGED <<use_igir, clean_roms, myrient_base_url, list_dat, fixdat,
                   has_manual_fixdat, parsed, requests, fetched, prompts>>
    /\ UNCHANGED runrest

\* _perform_rom_cleaning
PerformRomCleaning(ok) ==
    /\ rpc = "clean"
    /\ ~clean_roms => ok
    /\ IF ok
       THEN /\ rpc' = "identify"
            /\ UNCHANGED <<signals, finished>>
       ELSE Return_run(<<Error("ERROR_IGIR_CLEAN_FAILED")>>)
    /\ UNCHANGED <<use_igir, clean_roms, myrient_base_url, list_dat, fixdat,
                   has_manual_fixdat, parsed, requests, fetched, prompts>>
    /\ UNCHANGED runrest

\* parse_fixdat: None on a file that cannot be read or parsed, else the list
parse_fixdat(doc) ==
    IF doc \in {"none", "missing", "unparsable"} THEN "failed" ELSE doc

\* run_igir_report_and_get_missing_games: None when the report fails, else
\* the rows marked MISSING, which may be none of a DAT with games
igir_report(doc) ==
    IF doc \in {"missing", "unparsable"} THEN {"failed"}
    ELSE IF doc = "empty" THEN {"empty"}
    ELSE {"empty", "games"}

\* _identify_missing_games
IdentifyMissingGames ==
    /\ rpc = "identify"
    /\ IF ~has_manual_fixdat
       THEN /\ parsed' \in igir_report(list_dat)
            /\ IF parsed' # "games"
               THEN Return_run(<<Status("Collection is complete!")>>)
               ELSE /\ rpc' = "fetch"
                    /\ UNCHANGED <<signals, finished>>
       ELSE /\ parsed' = parse_fixdat(ManualDocument)
            /\ IF parsed' # "games"
               THEN Return_run(<<Error("ERROR_MISSING_FIXDAT")>>)
               ELSE /\ rpc' = "fetch"
                    /\ UNCHANGED <<signals, finished>>
    /\ UNCHANGED <<use_igir, clean_roms, myrient_base_url, list_dat, fixdat,
                   has_manual_fixdat, requests, fetched, prompts>>
    /\ UNCHANGED runrest

\* _fetch_myrient_index up to the dialog: the fetch, and on 404 the request
\* for another URL
FetchMyrientIndex(error_type) ==
    /\ rpc = "fetch"
    /\ requests' = Append(requests, "index")
    /\ fetched' = Append(fetched, error_type)
    /\ IF asks_for_url(error_type)
       THEN /\ prompts' = prompts + 1
            /\ rpc' = "prompt"
            /\ UNCHANGED <<signals, finished>>
       ELSE /\ UNCHANGED prompts
            /\ IF error_type = "ok"
               THEN /\ rpc' = "match"
                    /\ UNCHANGED <<signals, finished>>
               ELSE Return_run(<<Error("ERROR_MYRIENT_INDEX_FAILED")>>)
    /\ UNCHANGED <<use_igir, clean_roms, myrient_base_url, list_dat, fixdat,
                   has_manual_fixdat, parsed>>
    /\ UNCHANGED runrest

\* the dialog is closed without a URL: the index stays None
OverrideDeclined ==
    /\ rpc = "prompt"
    /\ Return_run(<<Error("ERROR_MYRIENT_INDEX_FAILED")>>)
    /\ UNCHANGED <<use_igir, clean_roms, myrient_base_url, list_dat, fixdat,
                   has_manual_fixdat, parsed, requests, fetched, prompts>>
    /\ UNCHANGED runrest

\* the dialog returns a URL: the second fetch, and the end of
\* _fetch_myrient_index
OverrideRetry(error_type) ==
    /\ rpc = "prompt"
    /\ requests' = Append(requests, "index")
    /\ fetched' = Append(fetched, error_type)
    /\ IF error_type = "ok"
       THEN /\ rpc' = "match"
            /\ UNCHANGED <<signals, finished>>
       ELSE Return_run(<<Error("ERROR_MYRIENT_INDEX_FAILED")>>)
    /\ UNCHANGED <<use_igir, clean_roms, myrient_base_url, list_dat, fixdat,
                   has_manual_fixdat, parsed, prompts>>
    /\ UNCHANGED runrest

\* _match_games_with_myrient, then _maybe_select_downloads
MatchAndSelect(outcome) ==
    /\ rpc = "match"
    /\ IF outcome = "download"
       THEN /\ rpc' = "download"
            /\ UNCHANGED <<signals, finished>>
       ELSE Return_run(<<Status(outcome)>>)
    /\ UNCHANGED <<use_igir, clean_roms, myrient_base_url, list_dat, fixdat,
                   has_manual_fixdat, parsed, requests, fetched, prompts>>
    /\ UNCHANGED runrest

\* _download_matched_games: the download stage, archives being extracted
DownloadMatchedGames ==
    /\ rpc = "download"
    /\ sched = "run"
    /\ NextExtract

\* _download_with_gui_updates has returned, or an exception has left it
LogCompletion ==
    /\ rpc = "download"
    /\ sched \in {"done", "aborted"}
    /\ IF sched = "done"
       THEN Return_run(<<Status("Completed successfully")>>)
       ELSE Return_run(<<Error("Error")>>)
    /\ UNCHANGED <<use_igir, clean_roms, myrient_base_url, list_dat, fixdat,
                   has_manual_fixdat, parsed, requests, fetched, prompts>>
    /\ UNCHANGED runrest

InitWorker ==
    /\ use_igir \in BOOLEAN
    /\ clean_roms \in BOOLEAN
    /\ myrient_base_url \in BOOLEAN
    /\ list_dat \in DatStates
    /\ fixdat \in IF use_igir THEN {"none"} \cup (DatStates \ {"missing"})
                  ELSE {"none"}
    /\ has_manual_fixdat = FALSE
    /\ parsed = "pending"
    /\ rpc = "setup"
    /\ requests = <<>>
    /\ fetched = <<>>
    /\ prompts = 0
    /\ signals = <<>>
    /\ finished = 0
    /\ matched_games = [i \in Tasks |-> FileItem(TRUE)]
    /\ extract_enabled = TRUE
    /\ delete_archive_after_extract = FALSE
    /\ InitRun
    /\ listing_slack = 0
    /\ present_at_start = {}
    /\ MatchIdle
    /\ ThrottleIdle
    /\ ExtractIdle
    /\ ChdIdle
    /\ RaceIdle
    /\ PoolIdle
    /\ PostIdle

NextWorker ==
    \/ SetupFixdatConfig
    \/ \E success \in BOOLEAN : EnsureIgirAvailable(success)
    \/ \E inferred \in BOOLEAN : ValidateConfiguration(inferred)
    \/ \E ok \in BOOLEAN : PerformRomCleaning(ok)
    \/ IdentifyMissingGames
    \/ \E error_type \in FetchResults : FetchMyrientIndex(error_type)
    \/ OverrideDeclined
    \/ \E error_type \in FetchResults : OverrideRetry(error_type)
    \/ \E outcome \in {"download", "No matches found", "Cancelled"} :
           MatchAndSelect(outcome)
    \/ DownloadMatchedGames
    \/ LogCompletion

SpecWorker == InitWorker /\ [][NextWorker]_vars

\* the steps of the worker thread, the dialog's return among them
WorkerThread ==
    \/ SetupFixdatConfig
    \/ \E success \in BOOLEAN : EnsureIgirAvailable(success)
    \/ \E inferred \in BOOLEAN : ValidateConfiguration(inferred)
    \/ \E ok \in BOOLEAN : PerformRomCleaning(ok)
    \/ IdentifyMissingGames
    \/ \E error_type \in FetchResults : FetchMyrientIndex(error_type)
    \/ OverrideDeclined
    \/ \E error_type \in FetchResults : OverrideRetry(error_type)
    \/ \E outcome \in {"download", "No matches found", "Cancelled"} :
           MatchAndSelect(outcome)
    \/ rpc = "download" /\ sched = "run" /\ (Submit \/ Collect \/ Summary)
    \/ LogCompletion

\* the worker thread goes on whenever it can, the dialog is closed one way
\* or the other, and the threads of both pools run
FairnessWorker ==
    /\ WF_vars(WorkerThread)
    /\ \A i \in Tasks : WF_vars(rpc = "download" /\ TaskStep(i))
    /\ WF_vars(rpc = "download" /\ \E p \in OutPaths : Extract(p))

\* the phases before the download stage end whatever the configuration:
\* one configuration that needs IGIR and one that does not
InitWorkerLive ==
    /\ InitWorker
    /\ ~clean_roms
    /\ fixdat = "none"

LiveWorker == InitWorkerLive /\ [][NextWorker]_vars /\ FairnessWorker

\* ================================================================ claims
Files == {f \in Tasks \X Members : f[2] <= NumFiles(f[1])}
OutOf(f) == <<f[1], f[2], "out">>
TmpOf(f) == <<f[1], f[2], "tmp">>
Transferring(f) ==
    /\ cur[f[1]] = f[2]
    /\ pc[f[1]] \in {"request", "recv", "write"}

\* C1 as stated: a destination the run writes is absent or holds at least
\* the expected (listed) number of bytes
C1_DestNeverBelowExpectedSize ==
    \A f \in Files :
        OutOf(f) \notin present_at_start =>
            \/ disk[OutOf(f)] = Absent
            \/ disk[OutOf(f)] >= ListedSize(f[1], f[2])

\* C1 amended: every destination is absent or holds all bytes of a response
\* stream that ran to its end, never the bytes of a transfer that is still
\* being written or was aborted; the listed size does not enter into it
C1_DestAbsentOrWholeStream ==
    \A f \in Files :
        \/ disk[OutOf(f)] = Absent
        \/ disk[OutOf(f)] = StreamLen(f[1], f[2])

C1_Witness ==
    \E f \in Files, g \in Files :
        /\ f[1] # g[1]
        /\ result[f[1]] = "ok"
        /\ disk[OutOf(f)] = StreamLen(f[1], f[2])
        /\ Transferring(g)
        /\ disk[TmpOf(g)] > 0
        /\ disk[TmpOf(g)] < StreamLen(g[1], g[2])
        /\ disk[OutOf(g)] = Absent

\* C2: a transfer that had a chunk boundary ahead of it when the forced stop
\* was requested never gets from that boundary to another write; once it is
\* over its destination and its temp file are absent, and its task never
\* ends Completed
C2_AfterForcedStop ==
    \A f \in forced_mid :
        /\ ~Transferring(f) =>
              /\ disk[OutOf(f)] = Absent
              /\ disk[TmpOf(f)] = Absent
        /\ Terminal(f[1]) => ~Completed(f[1])

C2_NoWriteAfterBoundary ==
    \A i \in Tasks :
        (force_stop_requested /\ pc[i] = "recv") => pc'[i] # "write"

C2_ForcedStop == []C2_AfterForcedStop /\ [][C2_NoWriteAfterBoundary]_vars

C2_Witness ==
    \E f \in forced_mid :
        /\ result[f[1]] = "cancelled"
        /\ f[1] \notin faulted
        /\ disk[OutOf(f)] = Absent
        /\ disk[TmpOf(f)] = Absent

C5_EndOfOneTouchesNoOther ==
    \A i \in Tasks :
        (result[i] = "none" /\ result'[i] # "none") =>
            /\ sched' = sched
            /\ \A k \in Tasks \ {i} : pc'[k] = pc[k] /\ result'[k] = result[k]

C5_SiblingIsolation ==
    /\ [][C5_EndOfOneTouchesNoOther]_vars
    /\ [](sched # "aborted")
    /\ <>(stop_requested \/ \A i \in Tasks : Terminal(i))

C5_Witness ==
    /\ ~stop_requested
    /\ sched = "done"
    /\ \E i \in Tasks, k \in Tasks :
          /\ i < k
          /\ result[i] \in {"failed", "raised"}
          /\ result[k] = "ok"

\* C6 as stated: after a run without stop the two counters add up to the
\* number of matched items, one count per task
C6_TallyCountsEachTaskOnce ==
    (sched = "done" /\ ~stop_requested) =>
        /\ summary.successful + summary.failed = total_games
        /\ summary.successful = Cardinality({i \in Tasks : Completed(i)})
        /\ summary.failed = Cardinality({i \in Tasks : ~Completed(i)})

\* C7 as stated: after a first run in which every task completed and every
\* extraction succeeded, a second run over the same list and directory
\* transfers nothing and ends with the directory as the first run left it
C7_IdempotentRerun ==
    (run = 2 /\ first_ok) =>
        /\ transfers = 0
        /\ sched = "done" => disk = disk_after_first

\* an extension: what follows the last dot of a name, not empty
IsExtension(x) == x # <<>> /\ \A k \in 1..Len(x) : x[k] # "."

HasExtensionAt(fn, k) ==
    /\ k \in 1..Len(fn)
    /\ fn[k] = "."
    /\ IsExtension(SubSeq(fn, k + 1, Len(fn)))

\* s is the stem of listing entry f: a folder's name as it is, a file's name
\* without its extension
IsStemOf(s, f) ==
    LET fn == Strip(f.filename)
    IN  IF f.is_folder THEN s = fn
        ELSE \/ \E k \in 1..Len(fn) :
                   HasExtensionAt(fn, k) /\ s = SubSeq(fn, 1, k - 1)
             \/ (\A k \in 1..Len(fn) : ~HasExtensionAt(fn, k)) /\ s = fn

Listing == 1..Len(myrient_index)
Catalog == 1..Len(games)
Results == 1..Len(matched)

\* C8: when the listing holds a folder and a file with the stem a catalog
\* entry names, in whichever order, the entry is matched to a folder of that
\* stem; no catalog entry is matched more than once
C8_FolderPreferred ==
    mpc = "done" =>
        /\ \A k \in Catalog :
              Cardinality({r \in Results : matched[r].game = k}) <= 1
        /\ \A k \in Catalog, i \in Listing, j \in Listing :
              ( /\ myrient_index[i].is_folder
                /\ ~myrient_index[j].is_folder
                /\ IsStemOf(games[k], myrient_index[i])
                /\ IsStemOf(games[k], myrient_index[j]) ) =>
                    \E r \in Results :
                        /\ matched[r].game = k
                        /\ myrient_index[matched[r].entry].is_folder
                        /\ IsStemOf(games[k], myrient_index[matched[r].entry])

C8_Witness ==
    /\ mpc = "done"
    /\ \E i \in Listing, j \in Listing, r \in Results :
          /\ i < j
          /\ ~myrient_index[i].is_folder
          /\ myrient_index[j].is_folder
          /\ IsStemOf(matched[r].name, myrient_index[i])
          /\ matched[r].entry = j

\* C9: a catalog entry is in the result exactly when its name is the stem of
\* some listing entry, every result pairs a name with an entry of that stem,
\* the result is in catalog order, and it is shorter than the catalog when
\* an entry went unmatched
C9_ExactMatch ==
    mpc = "done" =>
        /\ \A k \in Catalog :
              (\E r \in Results : matched[r].game = k) <=>
              (\E j \in Listing : IsStemOf(games[k], myrient_index[j]))
        /\ \A r \in Results :
              /\ matched[r].name = games[matched[r].game]
              /\ IsStemOf(matched[r].name, myrient_index[matched[r].entry])
        /\ \A r \in Results, q \in Results :
              r < q => matched[r].game < matched[q].game
        /\ (\E k \in Catalog : \A r \in Results : matched[r].game # k) =>
              Len(matched) < Len(games)

C9_Witness ==
    /\ mpc = "done"
    /\ Len(games) = 2
    /\ Len(matched) = 1
    /\ matched[1].game = 2
    /\ ~myrient_index[matched[1].entry].is_folder
    /\ Len(myrient_index[matched[1].entry].filename) > Len(matched[1].name)

\* overall percentage as emit_progress_locked computes it
overall_pct(total_downloaded) ==
    IF total_size > 0 THEN (total_downloaded * 100) \div total_size ELSE 0

C11_GlobalThrottle ==
    \A a \in 1..Len(emitted), b \in 1..Len(emitted) :
        (a < b /\ emitted[a].by # emitted[b].by) =>
            emitted[b].at - emitted[a].at >= Interval

\* the task of an extraction job downloaded the archive in this run, has
\* returned ok and has been collected by the scheduler
JobOfCompletedDownload(p) ==
    /\ IsArchive(p[1], p[2])
    /\ p \in archives[p[1]]
    /\ result[p[1]] = "ok"
    /\ p[1] \notin active

\* C12 as stated: every extraction job is for an archive of a single-file
\* task that has reported Completed
C12_OnlySingleFileDownloads ==
    \A p \in DOMAIN extract_futures :
        /\ JobOfCompletedDownload(p)
        /\ ~matched_games[p[1]].is_folder

\* C12 amended: every extraction job is for a file with an archive suffix
\* that a task, single-file or folder, downloaded in this run, and is
\* created after that task reported Completed; tasks that failed, were
\* cancelled or were skipped get none
C12_OnlyCompletedDownloads ==
    \A p \in DOMAIN extract_futures : JobOfCompletedDownload(p)

C12_Witness ==
    /\ \E p \in DOMAIN extract_futures : ~matched_games[p[1]].is_folder
    /\ \E k \in Tasks :
          /\ result[k] = "cancelled"
          /\ k \notin active
          /\ disk[<<k, 1, "out">>] # Absent
          /\ <<k, 1, "out">> \notin DOMAIN extract_futures

\* the flatten has run on what the unpacking left
Flattened == xpc = "done" /\ unpacked # NoFunction

\* exactly one new top-level directory and no new top-level file appeared
SingleWrapper ==
    /\ Cardinality({n \in DOMAIN unpacked \ pre_names :
                       unpacked[n].kind = "dir"}) = 1
    /\ {n \in DOMAIN unpacked \ pre_names : unpacked[n].kind = "file"} = {}

Wrapper ==
    CHOOSE n \in DOMAIN unpacked \ pre_names : unpacked[n].kind = "dir"

\* a child of the wrapper bears the name of an entry of the directory
Collision ==
    \E c \in DOMAIN unpacked[Wrapper].kids : c \in DOMAIN unpacked

\* the children are directly under the target, the wrapper is gone and
\* every other entry is as the unpacking left it
ChildrenMovedUp ==
    /\ \A c \in DOMAIN unpacked[Wrapper].kids :
           /\ c \in DOMAIN output_dir
           /\ output_dir[c] = Entry(unpacked[Wrapper].kids[c], NoFunction,
                                    FALSE)
    /\ Wrapper \in DOMAIN output_dir =>
           Wrapper \in DOMAIN unpacked[Wrapper].kids
    /\ \A n \in DOMAIN unpacked \ {Wrapper} :
           n \notin DOMAIN unpacked[Wrapper].kids =>
               (n \in DOMAIN output_dir /\ output_dir[n] = unpacked[n])
    /\ DOMAIN output_dir \subseteq
           (DOMAIN unpacked \ {Wrapper}) \cup DOMAIN unpacked[Wrapper].kids

\* C13 as stated: after unpacking, one new top-level directory and no new
\* top-level file means the children are moved up and the wrapper removed;
\* every other case leaves the extracted structure untouched
C13_FlattenHeuristic ==
    Flattened =>
        IF SingleWrapper
        THEN ChildrenMovedUp /\ Wrapper \notin DOMAIN output_dir
        ELSE output_dir = unpacked

\* C13 amended: the children are moved up and the wrapper removed when one
\* new top-level directory and no new top-level file appeared and no child
\* bears the name of an entry of the target directory, the wrapper
\* included; in every other case the extracted structure is left untouched
C13_FlattenUnlessCollision ==
    Flattened =>
        IF SingleWrapper /\ ~Collision
        THEN ChildrenMovedUp /\ Wrapper \notin DOMAIN output_dir
        ELSE output_dir = unpacked

C13_Witness ==
    /\ Flattened
    /\ SingleWrapper
    /\ ~Collision
    /\ DOMAIN unpacked[Wrapper].kids # {}
    /\ pre_names # {}
    /\ output_dir # unpacked

\* C14: when a child of the single new wrapper directory bears the name of
\* an entry of the target directory, no child is moved, the directory is as
\* the unpacking left it, and the extraction returns a failure that names
\* the collision, the archive being kept
C14_FlattenFailsSafe ==
    (Flattened /\ SingleWrapper /\ Collision) =>
        /\ output_dir = unpacked
        /\ xret = [ok |-> FALSE, msg |-> "Could not flatten"]
        /\ archive_exists

C14_Witness ==
    /\ Flattened
    /\ SingleWrapper
    /\ \E c \in DOMAIN unpacked[Wrapper].kids :
           c \in pre_names /\ output_dir[c].old
    /\ ~xret.ok

InvocationsOf(s) == SelectSeq(invoked, LAMBDA e : e.src = s)

\* the modes tried on source s are the first modes of its preference order
InPreferenceOrder(s) ==
    LET tried == InvocationsOf(s)
        order == cmd_order(candidates[s])
    IN  /\ Len(tried) <= Len(order)
        /\ \A k \in 1..Len(tried) : tried[k].mode = order[k]

\* a further mode is tried only after a failed attempt
UntilSuccess(s) ==
    LET tried == InvocationsOf(s)
    IN  \A k \in 1..Len(tried) - 1 : tried[k].verdict = "failed"

\* an output written in this run is the output of the last attempt, which
\* is running or has succeeded
NothingOfFailedAttempts(s) ==
    LET tried == InvocationsOf(s)
    IN  output_file[s] \in Modes =>
            /\ tried # <<>>
            /\ tried[Len(tried)].mode = output_file[s]
            /\ tried[Len(tried)].verdict \in {"running", "converted"}

\* a source counted as converted has an output, written by that attempt
ConvertedHasOutput(s) ==
    LET tried == InvocationsOf(s)
    IN  (tried # <<>> /\ tried[Len(tried)].verdict = "converted") =>
            output_file[s] = tried[Len(tried)].mode

\* the run went through every source without a stop
RanToTheEnd == cpc = "done" /\ chdman_found /\ cpos > Len(candidates)

\* every source without an output was tried until a success or through
\* every mode
TriedToTheEnd(s) ==
    LET tried == InvocationsOf(s)
        order == cmd_order(candidates[s])
    IN  output_file[s] # "old" =>
            /\ tried # <<>>
            /\ \/ tried[Len(tried)].verdict = "converted"
               \/ /\ Len(tried) = Len(order)
                  /\ tried[Len(tried)].verdict = "failed"

Stopped(k) == invoked[k].verdict = "stopped by user"

IndexFailed ==
    /\ rpc = "finished"
    /\ signals = <<Error("ERROR_MYRIENT_INDEX_FAILED")>>
    /\ transfers = 0

\* C17: a 404 of the index fetch is followed by one request for another
\* URL and at most one more fetch; a fetch that fails otherwise, and a
\* second fetch that fails in any way, end the run with the index error, no
\* further request for a URL and no further fetch
C17_RetryExactlyOnce ==
    /\ Len(fetched) <= 2
    /\ prompts = IF fetched # <<>> /\ fetched[1] = "404" THEN 1 ELSE 0
    /\ Len(fetched) = 2 => fetched[1] = "404"
    /\ (Len(fetched) = 1 /\ fetched[1] \notin {"ok", "404"}) => IndexFailed
    /\ (Len(fetched) = 2 /\ fetched[2] # "ok") => IndexFailed
    /\ Len(requests) <= Len(fetched) + 1

C17_Witness ==
    /\ fetched = <<"404", "404">>
    /\ prompts = 1
    /\ IndexFailed

\* the document the run takes its wanted entries from
CatalogDocument == IF use_igir /\ fixdat # "none" THEN fixdat ELSE list_dat

\* C18 as stated: a catalog that parses to zero wanted entries ends the run
\* with 'collection complete' and no error, without fetch, matching or
\* download, and a catalog that cannot be parsed does not end it that way
C18_EmptyCatalogIsNotAnError ==
    /\ parsed = "empty" =>
           /\ rpc = "finished"
           /\ signals = <<Status("Collection is complete!")>>
           /\ fetched = <<>>
           /\ transfers = 0
    /\ parsed = "failed" =>
           signals # <<Status("Collection is complete!")>>

\* C19 as stated: with a catalog that cannot be read or parsed, or without
\* a base URL, no phase of the run issues a network request or a download
C19_TerminalErrorsPrecedeNetwork ==
    (CatalogDocument \in {"missing", "unparsable"} \/ ~myrient_base_url) =>
        /\ requests = <<>>
        /\ transfers = 0

\* the run went into its download stage
DownloadStageReached ==
    /\ fetched # <<>>
    /\ fetched[Len(fetched)] = "ok"
    /\ signals \notin {<<Status("No matches found")>>, <<Status("Cancelled")>>}

InFlightTasks == {i \in Tasks : InFlight(i)}
Pending(i) == pc[i] = "pending"

\* one iteration of a fill loop: idx moves by one and item idx + 1, not
\* submitted before, becomes a future of the pool
OneTaskPerItem ==
    idx' # idx =>
        /\ idx' = idx + 1
        /\ Pending(idx')
        /\ pc'[idx'] # "pending"
        /\ active' = active \cup {idx'}
        /\ idx' \notin active

\* C21: at most max_workers download tasks are in flight in every state,
\* and every matched item gets one task: the items up to idx have been
\* submitted once each, those after idx not yet, and without a stop the
\* run ends with idx = total_games
C21_BoundedPool ==
    /\ [](/\ Cardinality(InFlightTasks) <= max_workers
          /\ Cardinality(active) <= max_workers
          /\ idx \in 0..total_games
          /\ active \subseteq 1..idx
          /\ \A i \in Tasks : Pending(i) <=> i > idx
          /\ (sched = "done" /\ ~StopSeen) => idx = total_games)
    /\ [][OneTaskPerItem]_vars

\* the pool is full while an item is still waiting
C21_Witness ==
    /\ Cardinality(InFlightTasks) = max_workers
    /\ idx < total_games

\* --------------------------------------------------------- greedy refill
\* a step of the scheduler in which wait() returned: futures leave active
Waited == active' # active /\ idx' = idx

\* a step in which a task is started
Started(i) == Pending(i) /\ pc'[i] # "pending"

\* C22: without a stop the scheduler goes back to wait() only when the pool
\* is full again or no item is pending; a started task is the pending one
\* of the lowest index, so tasks start in strictly increasing order and
\* never twice; and while items are pending the starts go on until none
\* is left, unless a stop comes
C22_GreedyRefillInOrder ==
    /\ [][/\ (Waited /\ ~StopSeen) =>
                \/ idx = total_games
                \/ Cardinality(active) = max_workers
          /\ \A i \in Tasks :
                /\ Started(i) =>
                      /\ \A k \in Tasks : Pending(k) => i <= k
                      /\ \A k \in Tasks : k < i => ~Pending(k)
                      /\ idx < i /\ idx' = i
                /\ ~Pending(i) => pc'[i] # "pending"]_vars
    /\ (idx < total_games) ~> (idx = total_games \/ StopSeen)

\* task 2 has finished before task 1, and task 3 was started in its place
\* while task 1 is still in flight
C22_Witness ==
    /\ ~StopSeen
    /\ Terminal(2)
    /\ InFlight(1)
    /\ InFlight(3)
    /\ 2 \notin active

\* ----------------------------------------------------- task state machine
Failed(i) == result[i] \in {"failed", "raised"}
Cancelled(i) == result[i] = "cancelled"

IsFolder(i) == matched_games[i].is_folder
MemberPath(i, j) == <<i, j, "out">>
AllMembersThere(i) == \A j \in RemoteMembers : disk[MemberPath(i, j)] # Absent

\* a step of the folder task i that ends the transfer of a member in failure
MemberFails(i) == IsFolder(i) /\ pc[i] = "post" /\ ~ret[i][1]

\* the folder loop of task i goes on to the next member
GoesOn(i) ==
    /\ cur'[i] = cur[i] + 1
    /\ pc'[i] = IF cur[i] < NumFiles(i) THEN "member" ELSE "fin"

\* a transfer is opened for the current member of task i
Opens(i) == pc[i] = "request" /\ pc'[i] = "recv"

FolderOutcomeOf(i) ==
    Terminal(i) =>
        /\ Completed(i) => AllMembersThere(i)
        /\ ~Completed(i) => result[i] = "failed"

\* the loop over the members has ended and the task returns
LoopEnds(i) == pc[i] = "fin" /\ pc'[i] # "fin"

FolderStepsOf(i) ==
    /\ LoopEnds(i) => (result'[i] = "ok" <=> AllMembersThere(i))
    /\ (MemberFails(i) /\ pc'[i] # "post") => GoesOn(i) /\ ~folder_ok'[i]
    /\ (LoopEnds(i) /\ ~folder_ok[i]) => result'[i] = "failed"
    /\ \A j \in RemoteMembers :
          disk[MemberPath(i, j)] # Absent => disk'[MemberPath(i, j)] # Absent
    /\ (Opens(i) /\ run = 2) =>
          disk_after_first[MemberPath(i, cur[i])] = Absent

Listed(i) == IsFolder(i) /\ NumFiles(i) > 0
C24_ListedFolderOutcome ==
    /\ [](\A i \in Tasks : Listed(i) => FolderOutcomeOf(i))
    /\ [][\A i \in Tasks : Listed(i) => FolderStepsOf(i)]_vars

\* a listed folder failed on its first member and still got its second
C24_Witness ==
    \E i \in Tasks :
        /\ IsFolder(i)
        /\ result[i] = "failed"
        /\ disk[MemberPath(i, 1)] = Absent
        /\ disk[MemberPath(i, 2)] # Absent

\* ------------------------------------------ the counters of the threads
\* The pool threads run download_one for items that are already on disk,
\* the scheduler thread counts the futures that have returned.  A `with
\* self._lock` block is entered in one step and left with its last
\* statement; `successful += 1` on the nonlocal counter is a read and a
\* write, and nothing is held between the two.
Workers == 1..PoolSize
Scheduler == 0
Threads == {Scheduler} \cup Workers

racerest == <<cfgvars, flagvars, fsvars, schedvars, failed, taskvars,
              histvars, matchvars, throttlevars, extractvars, chdvars,
              runvars,
    poolvars,
    postvars>>

\* with self._lock: the thread waits until the lock is free
LockEnter(w) ==
    /\ wpc[w] \in {"start", "skipped"}
    /\ lock = 0
    /\ lock' = w
    /\ wpc' = [wpc EXCEPT ![w] = IF @ = "start" THEN "register" ELSE "record"]
    /\ UNCHANGED <<spc, loaded, increments, collected, successful, progvars,
                   racerest>>

\* size_by_key[key] = file_size; bytes_by_key.setdefault(key, 0)
RegisterKey(w) ==
    /\ wpc[w] = "register"
    /\ lock = w
    /\ size_by_key' = RecordBytes(size_by_key, make_key(w, 1), FileSize(w))
    /\ bytes_by_key' = SetDefault(bytes_by_key, make_key(w, 1))
    /\ lock' = 0
    /\ wpc' = [wpc EXCEPT ![w] = "exists"]
    /\ UNCHANGED <<spc, loaded, increments, collected, successful, racerest>>

\* if output_path.exists(): successful += 1, the read of the counter
LoadCounter(w) ==
    /\ wpc[w] = "exists"
    /\ disk[<<w, 1, "out">>] # Absent
    /\ loaded' = [loaded EXCEPT ![w] = successful]
    /\ wpc' = [wpc EXCEPT ![w] = "add"]
    /\ UNCHANGED <<lock, spc, increments, collected, successful, progvars,
                   racerest>>

\* successful += 1, the write of the counter
StoreCounter(w) ==
    /\ wpc[w] = "add"
    /\ successful' = loaded[w] + 1
    /\ increments' = [increments EXCEPT ![w] = @ + 1]
    /\ wpc' = [wpc EXCEPT ![w] = "skipped"]
    /\ UNCHANGED <<lock, spc, loaded, collected, progvars, racerest>>

\* bytes_by_key[key] = file_size, and download_one returns
RecordSkipped(w) ==
    /\ wpc[w] = "record"
    /\ lock = w
    /\ bytes_by_key' = RecordBytes(bytes_by_key, make_key(w, 1), FileSize(w))
    /\ lock' = 0
    /\ wpc' = [wpc EXCEPT ![w] = "returned"]
    /\ UNCHANGED <<spc, loaded, increments, collected, successful,
                   size_by_key, racerest>>

\* the scheduler thread, for a done future: if ok: successful += 1, the read
SchedulerLoad(w) ==
    /\ spc = <<"wait", 0>>
    /\ wpc[w] = "returned"
    /\ w \notin collected
    /\ loaded' = [loaded EXCEPT ![Scheduler] = successful]
    /\ spc' = <<"add", w>>
    /\ UNCHANGED <<lock, wpc, increments, collected, successful, progvars,
                   racerest>>

\* the scheduler thread: the write
SchedulerStore ==
    /\ spc[1] = "add"
    /\ successful' = loaded[Scheduler] + 1
    /\ increments' = [increments EXCEPT ![Scheduler] = @ + 1]
    /\ collected' = collected \cup {spc[2]}
    /\ spc' = <<"wait", 0>>
    /\ UNCHANGED <<lock, wpc, loaded, progvars, racerest>>

\* the first max_workers items are on disk and have just been submitted
InitRace ==
    /\ lock = 0
    /\ wpc = [w \in Workers |-> "start"]
    /\ spc = <<"wait", 0>>
    /\ loaded = [t \in Threads |-> 0]
    /\ increments = [t \in Threads |-> 0]
    /\ collected = {}
    /\ matched_games = [i \in Tasks |-> FileItem(TRUE)]
    /\ extract_enabled = FALSE
    /\ delete_archive_after_extract = FALSE
    /\ listing_slack = 0
    /\ present_at_start = {<<w, 1, "out">> : w \in Workers}
    /\ disk = [p \in Paths |->
                 IF p \in present_at_start THEN PresentLen(p[1], p[2])
                 ELSE Absent]
    /\ extracted = {}
    /\ run = 1
    /\ disk_after_first = NoFunction
    /\ first_ok = FALSE
    /\ FreshRun
    /\ MatchIdle
    /\ ThrottleIdle
    /\ ExtractIdle
    /\ ChdIdle
    /\ RunIdle
    /\ PoolIdle
    /\ PostIdle

NextRace ==
    \/ \E w \in Workers : LockEnter(w)
    \/ \E w \in Workers : RegisterKey(w)
    \/ \E w \in Workers : LoadCounter(w)
    \/ \E w \in Workers : StoreCounter(w)
    \/ \E w \in Workers : RecordSkipped(w)
    \/ \E w \in Workers : SchedulerLoad(w)
    \/ SchedulerStore

SpecRace == InitRace /\ [][NextRace]_vars

\* ------------------------------------------------------------ one mutex
\* every write of the two maps is made by the holder of the lock
MapsUnderLock ==
    (bytes_by_key' # bytes_by_key \/ size_by_key' # size_by_key) => lock # 0

\* the threads that have written the success counter
CounterWriters == {t \in Threads : increments[t] > 0}

\* every += 1 that was executed is in the counter
NoLostUpdate == successful = SumOver(increments, Threads)

C25_NoUpdateIsLost ==
    (\A w \in Workers : wpc[w] = "returned" /\ w \in collected) =>
        NoLostUpdate

\* C25 as stated: the two progress maps are written under the lock only and
\* are the only state written by more than one pool thread, so that the
\* success counter has at most one writer among the pool threads and, when
\* every thread is done, holds every increment that was made
C25_SingleMutexPolicy ==
    /\ [][MapsUnderLock]_vars
    /\ [](Cardinality(CounterWriters \cap Workers) <= 1)
    /\ [](C25_NoUpdateIsLost)

\* --------------------------------------------- the pool over the matches
\* The matcher's list goes to the fill loops as it is.  The destination of
\* a matched item is download_dir / "Myrient Filename", the name of the
\* listing entry it was matched with.
filename(k) == myrient_index[matched[k].entry].filename
output_path(k) == <<filename(k), 1, "out">>

\* a fill loop submits the next item of the list
SubmitMatched ==
    /\ mpc = "done"
    /\ submitted < Len(matched)
    /\ Cardinality(in_pool) < max_workers
    /\ submitted' = submitted + 1
    /\ in_pool' = in_pool \cup {submitted + 1}
    /\ UNCHANGED <<dlvars, matchvars, throttlevars, extractvars, chdvars,
                   runvars, racevars, postvars>>

\* wait() hands back the future of item k
ReturnMatched(k) ==
    /\ k \in in_pool
    /\ in_pool' = in_pool \ {k}
    /\ UNCHANGED <<dlvars, matchvars, throttlevars, extractvars, chdvars,
                   runvars, racevars, postvars,
                   submitted>>

NextPool ==
    \/ NextMatch
    \/ SubmitMatched
    \/ \E k \in 1..MaxCatalog : ReturnMatched(k)

SpecPool == InitMatch /\ [][NextPool]_vars

\* C26 as stated: two tasks that are in the pool at the same time have
\* different destinations and different temp files, whatever the catalog
\* and the listing
C26_ExclusivePaths ==
    \A a, b \in in_pool :
        a # b =>
            /\ output_path(a) # output_path(b)
            /\ temp_path(output_path(a)) # temp_path(output_path(b))

\* --------------------------------------------------- the archive goes last
\* the unpacking ran to its end and the flatten step reported success
UnpackedAndFlattened ==
    /\ DOMAIN members \subseteq DOMAIN unpacked
    /\ xpc = "done"
    /\ xret.ok

\* C27: the archive is deleted only when delete_archive_after_extract is on
\* and only in the step that ends a successful flatten of a complete
\* unpacking; after a failed unpacking, a timeout, a missing extractor or a
\* failed flatten the archive is still there
C27_ArchiveDeletionIsLast ==
    /\ [](/\ ~archive_exists => delete_archive /\ UnpackedAndFlattened
          /\ (xpc = "done" /\ ~xret.ok) => archive_exists
          /\ (xpc = "done" /\ xret.ok /\ delete_archive) => ~archive_exists)
    /\ [][(archive_exists /\ ~archive_exists') =>
             /\ xpc = "unpacked"
             /\ flatten_single_new_nested_dir(output_dir, pre_names).ok]_vars

\* the archive was deleted after a flatten that moved the children up
C27_Witness ==
    /\ delete_archive
    /\ ~archive_exists
    /\ xret = [ok |-> TRUE, msg |-> "Flattened nested folder"]
    /\ output_dir # unpacked

\* ------------------------------------------------- the bytes of the summary
\* the keys of the files of task i that have an entry in the progress map
KeysOf(i) == {k \in DOMAIN bytes_by_key : k[1] = i}
BytesOf(i) == SumOver(bytes_by_key, KeysOf(i))

\* C29 as stated: when the run has ended, the total of the summary is the
\* sum of the bytes of the tasks that ended Completed, downloaded or
\* skipped, and a task that ended Failed or Cancelled has no bytes in it
C29_FailedUnitsAddNoBytes ==
    sched = "done" =>
        /\ summary.total_downloaded =
              SumOver([i \in Tasks |-> IF Completed(i) THEN BytesOf(i) ELSE 0],
                      Tasks)
        /\ \A i \in Tasks : (Failed(i) \/ Cancelled(i)) => BytesOf(i) = 0

\* ------------------------------------------------------------- the slots
SlotIds == 0..(max_workers - 1)
HeldSlots == {future_to_slot[i] : i \in DOMAIN future_to_slot}
FreeSlots == Range(free_slots)

\* a fill loop takes a slot for a new task
TakesSlot == idx' # idx

download_dir == <<0, 0, "dir">>

\* extract_futures[ef] = target_dir: where archive p is unpacked
target_dir(p) == <<p[1], p[2], "dir">>

postrest == <<matchvars, throttlevars, extractvars, chdvars, runvars,
              racevars, poolvars>>

\* the pool's with block is left; for ef in as_completed(...): the loop ends
\* when every extraction job has finished, and has collected the target
\* directories of those that returned ok
WaitExtractions ==
    /\ ppc = "pool"
    /\ sched = "run"
    /\ ~can_start
    /\ active = {}
    /\ \A p \in DOMAIN extract_futures : extract_futures[p] # "queued"
    /\ postprocess_roots' =
          {target_dir(p) :
              p \in {q \in DOMAIN extract_futures : extract_futures[q] = "ok"}}
    /\ ppc' = "chd"
    /\ UNCHANGED <<dlvars, postrest, chd_convert, postprocess_esde_m3u,
                   chd_roots, esde_roots>>

\* if extract_enabled and chd_convert: _run_chd_conversion(chd_roots, ...)
ChdConversionStarts ==
    /\ ppc = "chd"
    /\ IF extract_enabled /\ chd_convert
       THEN /\ chd_roots' = IF postprocess_roots # {} THEN postprocess_roots
                            ELSE {download_dir}
            /\ ppc' = "converting"
       ELSE /\ ppc' = "esde"
            /\ UNCHANGED chd_roots
    /\ UNCHANGED <<dlvars, postrest, chd_convert, postprocess_esde_m3u,
                   postprocess_roots, esde_roots>>

\* _run_chd_conversion has returned
ChdConversionReturns ==
    /\ ppc = "converting"
    /\ ppc' = "esde"
    /\ UNCHANGED <<dlvars, postrest, chd_convert, postprocess_esde_m3u,
                   postprocess_roots, chd_roots, esde_roots>>

\* if extract_enabled and postprocess_esde_m3u and postprocess_roots:
\* _run_esde_postprocess(list(postprocess_roots))
EsdePostprocess ==
    /\ ppc = "esde"
    /\ esde_roots' =
          IF extract_enabled /\ postprocess_esde_m3u /\ postprocess_roots # {}
          THEN postprocess_roots ELSE esde_roots
    /\ ppc' = "end"
    /\ UNCHANGED <<dlvars, postrest, chd_convert, postprocess_esde_m3u,
                   postprocess_roots, chd_roots>>

\* the stop handling and the summary come last
SummaryAfterPost ==
    /\ ppc = "end"
    /\ Summary
    /\ UNCHANGED postvars

\* a download step of a run with post-processing
DownloadOrExtract ==
    /\ \/ Submit
       \/ Collect
       \/ \E i \in Tasks : TaskStep(i)
       \/ \E p \in OutPaths : Extract(p)
    /\ UNCHANGED postvars

InitPost ==
    /\ chd_convert \in BOOLEAN
    /\ postprocess_esde_m3u \in BOOLEAN
    /\ postprocess_roots = {}
    /\ chd_roots = {}
    /\ esde_roots = {}
    /\ ppc = "pool"
    /\ matched_games = [i \in Tasks |-> FileItem(TRUE)]
    /\ extract_enabled = TRUE
    /\ delete_archive_after_extract = FALSE
    /\ InitRun
    /\ listing_slack = 0
    /\ present_at_start = {}
    /\ MatchIdle
    /\ ThrottleIdle
    /\ ExtractIdle
    /\ ChdIdle
    /\ RunIdle
    /\ RaceIdle
    /\ PoolIdle

NextPost ==
    \/ DownloadOrExtract
    \/ WaitExtractions
    \/ ChdConversionStarts
    \/ ChdConversionReturns
    \/ EsdePostprocess
    \/ SummaryAfterPost

SpecPost == InitPost /\ [][NextPost]_vars


\* ---------------------------------------------------------------- C28
ConversionStarted == chd_roots # {}

GroupingStarted == esde_roots # {}

PoolDrained == active = {} /\ InFlightTasks = {} /\ ~can_start

ExtractionsFinished ==
    \A p \in DOMAIN extract_futures : extract_futures[p] # "queued"

SucceededDirs ==
    {target_dir(p) :
        p \in {q \in DOMAIN extract_futures : extract_futures[q] = "ok"}}

\* C28, the ordering alone: conversion starts only after the pool has drained
\* and every submitted extraction job has finished; grouping starts only
\* after conversion has returned.
C28_OrderingOfStages ==
    /\ ConversionStarted => PoolDrained /\ ExtractionsFinished
    /\ GroupingStarted => ppc = "end" /\ PoolDrained /\ ExtractionsFinished
    /\ ppc = "converting" => ~GroupingStarted

\* C28: disc conversion starts only after the download pool has drained and
\* every submitted extraction job has finished, multi-disc grouping starts
\* only after conversion has returned, and conversion and grouping are given
\* only directories of extractions that succeeded.
C28_StageOrdering ==
    /\ C28_OrderingOfStages
    /\ chd_roots \subseteq SucceededDirs
    /\ esde_roots \subseteq SucceededDirs

\* an extraction job has run while another download was still in flight
C28_ExtractionOverlapsDownloads ==
    /\ \E p \in DOMAIN extract_futures : extract_futures[p] # "queued"
    /\ InFlightTasks # {}

====
